---------------------------- MODULE Spec2Model ----------------------------
(***************************************************************************)
(* Model of the Renaissance contracts: the idempotency engine              *)
(* (common/src/idempotency.rs), the balance ledger                         *)
(* (balance_ledger/src/lib.rs), the settlement contract                    *)
(* (settlement/src/lib.rs), spin execution of the betting contract         *)
(* (betting/src/lib.rs) and minting and transfer of the player card        *)
(* contract (player_card/src/lib.rs).                                      *)
(*                                                                         *)
(* Every contract entry point is one action.  The host runs an entry point *)
(* as one transaction: when it returns Err or traps, every storage write   *)
(* of the invocation (nested contract calls included) is rolled back.      *)
(*                                                                         *)
(* settlement/src/lib.rs holds two entry points named settle_bet:          *)
(*   - lines 59-125, (bet_id, bettor, winner, bet_amount, payout,          *)
(*     settlement_type): moves funds through the ledger; it reads the      *)
(*     settled flag and breaks off before any write of it; modelled as     *)
(*     settle_bet;                                                         *)
(*   - lines 132-168, (operation_hash, bet_id, winner, payout,             *)
(*     ttl_seconds): replay-guarded, marks the bet settled; modelled as    *)
(*     settle_bet_op.                                                      *)
(* settlement/src/test.rs calls both signatures.                           *)
(***************************************************************************)
EXTENDS Integers, Sequences, FiniteSets, TLC

(***************************************************************************)
(* Bounds                                                                  *)
(***************************************************************************)
\* Largest value of the scaled-down i128: amounts range over I128_MIN..I128_MAX.
I128_MAX == 2
\* The ledger clock (u64 timestamp) runs over 0..MaxTime.
MaxTime == 3
\* TTLs offered to the replay guard: None, or Some(t) with t in 0..MaxTtl.
MaxTtl == 2
\* The player card contract mints at most MaxMints tokens.
MaxMints == 3

TokenIds == 1..MaxMints

I128_MIN == -I128_MAX - 1
I128 == I128_MIN..I128_MAX

(***************************************************************************)
(* Option<T>: None is the empty sequence, Some(x) the one-element sequence *)
(***************************************************************************)
None == <<>>
Some(x) == <<x>>
IsSome(o) == o # <<>>
Unwrap(o) == o[1]

(***************************************************************************)
(* Identities and keys                                                     *)
(***************************************************************************)
Users == {"alice", "bob"}
Signers == {"backend", "mallory"}
Bets == {"bet1", "bet2"}
Hashes == {"h1", "h2"}
SETTLEMENT_SCOPE == "settlement"
SPIN_SCOPE == "spin_exec"
NFT_MINT_SCOPE == "nft_mint"
Scopes == {SETTLEMENT_SCOPE, SPIN_SCOPE, NFT_MINT_SCOPE}
SpinIds == {"spin1", "spin2"}
OpKeys == Scopes \X Hashes
Ttls == {None} \cup {Some(t) : t \in 0..MaxTtl}

VARIABLES
    now,         \* env.ledger().timestamp()
    ops,         \* idempotency storage: DataKey::ExecutedOp(scope, hash) -> Option<ExecutionRecord>
    bl_backend,  \* balance ledger storage: DataKey::BackendSigner
    bl_balance,  \* balance ledger storage: DataKey::Balance(user) -> Option<UserBalance>
    bl_metrics,  \* balance ledger storage: DataKey::Metrics(user) -> Option<UserMetrics>
    st_backend,  \* settlement storage: DataKey::BackendSigner
    st_ledger,   \* settlement storage: DataKey::BalanceLedgerContract
    settled,     \* settlement storage: the bet ids with a DataKey::Settled entry
    bt_backend,  \* betting storage: DataKey::BackendSigner
    spin_executions,   \* betting storage: DataKey::SpinExecutions, spin_id -> Option<SpinExecution>
    pc_admin,          \* player card storage: the admin
    pc_next_token_id,  \* player card storage: the next token id, None before initialize
    pc_owner,          \* player card storage: token_id -> Option<owner>
    last         \* the last entry point called, its arguments and what it returned

\* The storage of the betting contract and of the player card contract.
bt_vars == <<bt_backend, spin_executions>>
pc_vars == <<pc_admin, pc_next_token_id, pc_owner>>

vars == <<now, ops, bl_backend, bl_balance, bl_metrics, st_backend, st_ledger, settled,
          bt_vars, pc_vars, last>>

(***************************************************************************)
(* Idempotency engine (common/src/idempotency.rs)                          *)
(***************************************************************************)
ExecutionRecord(at, ttl) == [executed_at |-> at, ttl_seconds |-> ttl]

saturating_sub_distance(a, b) == IF a >= b THEN a - b ELSE b - a

saturating_sub(a, b) == IF a >= b THEN a - b ELSE 0

is_expired_ignores_start(t, record) ==
    IF IsSome(record.ttl_seconds)
    THEN t >= Unwrap(record.ttl_seconds)
    ELSE FALSE

is_expired_strict(t, record) ==
    IF IsSome(record.ttl_seconds)
    THEN saturating_sub(t, record.executed_at) > Unwrap(record.ttl_seconds)
    ELSE FALSE

is_expired_untimed_after_a_tick(t, record) ==
    IF IsSome(record.ttl_seconds)
    THEN saturating_sub(t, record.executed_at) >= Unwrap(record.ttl_seconds)
    ELSE t > record.executed_at

is_expired_zero_never(t, record) ==
    IF IsSome(record.ttl_seconds) /\ Unwrap(record.ttl_seconds) > 0
    THEN saturating_sub(t, record.executed_at) >= Unwrap(record.ttl_seconds)
    ELSE FALSE

is_expired(t, record) ==
    IF IsSome(record.ttl_seconds)
    THEN saturating_sub(t, record.executed_at) >= Unwrap(record.ttl_seconds)
    ELSE FALSE

ensure_not_replayed_keyed_by_hash(m, scope, operation_hash, ttl_seconds, t) ==
    LET key == <<scope, operation_hash>>
        live == \E sc \in Scopes :
                    /\ IsSome(m[<<sc, operation_hash>>])
                    /\ ~is_expired(t, Unwrap(m[<<sc, operation_hash>>]))
    IN  IF live
        THEN [result |-> "DuplicateOperation", ops |-> m]
        ELSE [result |-> "Ok",
              ops |-> [m EXCEPT ![key] = Some(ExecutionRecord(t, ttl_seconds))]]

ensure_not_replayed_keeps_old_ttl(m, scope, operation_hash, ttl_seconds, t) ==
    LET key == <<scope, operation_hash>>
        live == IsSome(m[key]) /\ ~is_expired(t, Unwrap(m[key]))
    IN  IF live
        THEN [result |-> "DuplicateOperation", ops |-> m]
        ELSE IF IsSome(m[key])
        THEN [result |-> "Ok",
              ops |-> [m EXCEPT ![key] = Some(ExecutionRecord(t, Unwrap(m[key]).ttl_seconds))]]
        ELSE [result |-> "Ok",
              ops |-> [m EXCEPT ![key] = Some(ExecutionRecord(t, ttl_seconds))]]

ensure_not_replayed_skips_zero_ttl(m, scope, operation_hash, ttl_seconds, t) ==
    LET key == <<scope, operation_hash>>
        live == IsSome(m[key]) /\ ~is_expired(t, Unwrap(m[key]))
    IN  IF live
        THEN [result |-> "DuplicateOperation", ops |-> m]
        ELSE IF ttl_seconds = Some(0)
        THEN [result |-> "Ok", ops |-> m]
        ELSE [result |-> "Ok",
              ops |-> [m EXCEPT ![key] = Some(ExecutionRecord(t, ttl_seconds))]]

ensure_not_replayed_refreshes(m, scope, operation_hash, ttl_seconds, t) ==
    LET key == <<scope, operation_hash>>
        live == IsSome(m[key]) /\ ~is_expired(t, Unwrap(m[key]))
    IN  IF live
        THEN [result |-> "DuplicateOperation",
              ops |-> [m EXCEPT ![key] = Some(ExecutionRecord(t, Unwrap(m[key]).ttl_seconds))]]
        ELSE [result |-> "Ok",
              ops |-> [m EXCEPT ![key] = Some(ExecutionRecord(t, ttl_seconds))]]

\* ensure_not_replayed on storage map m at time t: the result and the storage after.
ensure_not_replayed(m, scope, operation_hash, ttl_seconds, t) ==
    LET key == <<scope, operation_hash>>
        live == IsSome(m[key]) /\ ~is_expired(t, Unwrap(m[key]))
    IN  IF live
        THEN [result |-> "DuplicateOperation", ops |-> m]
        ELSE [result |-> "Ok",
              ops |-> [m EXCEPT ![key] = Some(ExecutionRecord(t, ttl_seconds))]]

cleanup_operation_deletes_live(m, scope, operation_hash, t) ==
    LET key == <<scope, operation_hash>>
    IN  IF IsSome(m[key])
        THEN [result |-> TRUE, ops |-> [m EXCEPT ![key] = None]]
        ELSE [result |-> FALSE, ops |-> m]

\* cleanup_operation: the returned bool and the storage after.
cleanup_operation(m, scope, operation_hash, t) ==
    LET key == <<scope, operation_hash>>
    IN  IF IsSome(m[key]) /\ is_expired(t, Unwrap(m[key]))
        THEN [result |-> TRUE, ops |-> [m EXCEPT ![key] = None]]
        ELSE [result |-> FALSE, ops |-> m]

is_operation_executed_ignores_expiry(m, scope, operation_hash, t) ==
    IsSome(m[<<scope, operation_hash>>])

is_operation_executed(m, scope, operation_hash, t) ==
    LET key == <<scope, operation_hash>>
    IN  IF IsSome(m[key]) THEN ~is_expired(t, Unwrap(m[key])) ELSE FALSE

(***************************************************************************)
(* Authorization: `auths` is the set of addresses whose authorization the  *)
(* invocation (and every nested call of it) carries.  A missing signer is  *)
(* returned as the error Unauthorized; a signer that is stored but has not *)
(* authorized the invocation makes backend.require_auth() trap in the host *)
(* (HostError).  Both abort the call.                                      *)
(***************************************************************************)
require_auth(auths, address) == IF address \in auths THEN "Ok" ELSE "HostError"

require_backend_auth_open(backend, auths) == "Ok"

require_backend_auth(backend, auths) ==
    IF ~IsSome(backend) THEN "Unauthorized"
    ELSE require_auth(auths, Unwrap(backend))

(***************************************************************************)
(* Balance ledger (balance_ledger/src/lib.rs)                              *)
(***************************************************************************)
UserBalance(w, l) == [withdrawable |-> w, locked |-> l]

Ok(v) == [ok |-> TRUE, val |-> v]
Err(e) == [ok |-> FALSE, err |-> e]

checked_add_wrapping(a, b) ==
    IF a + b \in I128 THEN Ok(a + b)
    ELSE IF a + b > I128_MAX THEN Ok(a + b - (I128_MAX - I128_MIN + 1))
    ELSE Ok(a + b + (I128_MAX - I128_MIN + 1))

checked_add_saturating(a, b) ==
    IF a + b \in I128 THEN Ok(a + b)
    ELSE IF a + b > I128_MAX THEN Ok(I128_MAX)
    ELSE Ok(I128_MIN)

checked_add(a, b) ==
    IF a + b \in I128 THEN Ok(a + b) ELSE Err("Overflow")

validate_non_negative_off(amount) == Ok(TRUE)

validate_non_negative(amount) == IF amount < 0 THEN Err("InvalidAmount") ELSE Ok(TRUE)

validate_positive_allows_zero(amount) ==
    IF amount < 0 THEN Err("InvalidAmount") ELSE Ok(TRUE)

validate_positive(amount) == IF amount <= 0 THEN Err("InvalidAmount") ELSE Ok(TRUE)

get_user_balance(store, user) ==
    IF IsSome(store[user]) THEN Unwrap(store[user]) ELSE UserBalance(0, 0)

store_user_balance_shared(store, user, balance) == [u \in DOMAIN store |-> Some(balance)]

store_user_balance(store, user, balance) == [store EXCEPT ![user] = Some(balance)]

apply_balance_delta_unchecked(current, withdrawable_delta, locked_delta) ==
    LET w == checked_add(current.withdrawable, withdrawable_delta)
        l == checked_add(current.locked, locked_delta)
    IN  IF ~w.ok THEN w
        ELSE IF ~l.ok THEN l
        ELSE Ok(UserBalance(w.val, l.val))

apply_balance_delta(current, withdrawable_delta, locked_delta) ==
    LET w == checked_add(current.withdrawable, withdrawable_delta)
        l == checked_add(current.locked, locked_delta)
    IN  IF ~w.ok THEN w
        ELSE IF ~l.ok THEN l
        ELSE IF w.val < 0 THEN Err("InsufficientWithdrawable")
        ELSE IF l.val < 0 THEN Err("InsufficientLocked")
        ELSE Ok(UserBalance(w.val, l.val))

\* Each entry point as a function of the ledger's storage: the result (Ok with the
\* returned balance, or the error) and the balance storage after the call.
LedgerOut(res, store) == [res |-> res, store |-> store]

bl_set_balance_accumulates(backend, store, auths, user, withdrawable, locked) ==
    IF require_backend_auth(backend, auths) # "Ok"
    THEN LedgerOut(Err(require_backend_auth(backend, auths)), store)
    ELSE IF ~validate_non_negative(withdrawable).ok THEN LedgerOut(Err("InvalidAmount"), store)
    ELSE IF ~validate_non_negative(locked).ok THEN LedgerOut(Err("InvalidAmount"), store)
    ELSE LET previous == get_user_balance(store, user)
             updated == UserBalance(previous.withdrawable + withdrawable,
                                    previous.locked + locked)
         IN  LedgerOut(Ok(updated), store_user_balance(store, user, updated))

bl_set_balance_checks_total(backend, store, auths, user, withdrawable, locked) ==
    IF require_backend_auth(backend, auths) # "Ok"
    THEN LedgerOut(Err(require_backend_auth(backend, auths)), store)
    ELSE IF ~validate_non_negative(withdrawable).ok THEN LedgerOut(Err("InvalidAmount"), store)
    ELSE IF ~validate_non_negative(locked).ok THEN LedgerOut(Err("InvalidAmount"), store)
    ELSE IF ~checked_add(withdrawable, locked).ok THEN LedgerOut(Err("Overflow"), store)
    ELSE LET updated == UserBalance(withdrawable, locked)
         IN  LedgerOut(Ok(updated), store_user_balance(store, user, updated))

bl_set_balance(backend, store, auths, user, withdrawable, locked) ==
    IF require_backend_auth(backend, auths) # "Ok"
    THEN LedgerOut(Err(require_backend_auth(backend, auths)), store)
    ELSE IF ~validate_non_negative(withdrawable).ok THEN LedgerOut(Err("InvalidAmount"), store)
    ELSE IF ~validate_non_negative(locked).ok THEN LedgerOut(Err("InvalidAmount"), store)
    ELSE LET updated == UserBalance(withdrawable, locked)
         IN  LedgerOut(Ok(updated), store_user_balance(store, user, updated))

bl_apply_delta(backend, store, auths, user, withdrawable_delta, locked_delta) ==
    IF require_backend_auth(backend, auths) # "Ok"
    THEN LedgerOut(Err(require_backend_auth(backend, auths)), store)
    ELSE LET previous == get_user_balance(store, user)
             updated == apply_balance_delta(previous, withdrawable_delta, locked_delta)
         IN  IF ~updated.ok THEN LedgerOut(updated, store)
             ELSE LedgerOut(updated, store_user_balance(store, user, updated.val))

bl_lock_funds_debits_only(backend, store, auths, user, amount) ==
    IF require_backend_auth(backend, auths) # "Ok"
    THEN LedgerOut(Err(require_backend_auth(backend, auths)), store)
    ELSE IF ~validate_positive(amount).ok THEN LedgerOut(Err("InvalidAmount"), store)
    ELSE LET previous == get_user_balance(store, user)
         IN  IF previous.withdrawable < amount
             THEN LedgerOut(Err("InsufficientWithdrawable"), store)
             ELSE LET updated == apply_balance_delta(previous, -amount, 0)
                  IN  IF ~updated.ok THEN LedgerOut(updated, store)
                      ELSE LedgerOut(updated, store_user_balance(store, user, updated.val))

bl_lock_funds(backend, store, auths, user, amount) ==
    IF require_backend_auth(backend, auths) # "Ok"
    THEN LedgerOut(Err(require_backend_auth(backend, auths)), store)
    ELSE IF ~validate_positive(amount).ok THEN LedgerOut(Err("InvalidAmount"), store)
    ELSE LET previous == get_user_balance(store, user)
         IN  IF previous.withdrawable < amount
             THEN LedgerOut(Err("InsufficientWithdrawable"), store)
             ELSE LET updated == apply_balance_delta(previous, -amount, amount)
                  IN  IF ~updated.ok THEN LedgerOut(updated, store)
                      ELSE LedgerOut(updated, store_user_balance(store, user, updated.val))

bl_unlock_funds(backend, store, auths, user, amount) ==
    IF require_backend_auth(backend, auths) # "Ok"
    THEN LedgerOut(Err(require_backend_auth(backend, auths)), store)
    ELSE IF ~validate_positive(amount).ok THEN LedgerOut(Err("InvalidAmount"), store)
    ELSE LET previous == get_user_balance(store, user)
         IN  IF previous.locked < amount
             THEN LedgerOut(Err("InsufficientLocked"), store)
             ELSE LET updated == apply_balance_delta(previous, amount, -amount)
                  IN  IF ~updated.ok THEN LedgerOut(updated, store)
                      ELSE LedgerOut(updated, store_user_balance(store, user, updated.val))

get_withdrawable(store, user) == get_user_balance(store, user).withdrawable

get_locked(store, user) == get_user_balance(store, user).locked

get_total(store, user) ==
    LET balance == get_user_balance(store, user)
    IN  checked_add(balance.withdrawable, balance.locked)

UserMetrics(staked, won, lost) ==
    [total_staked |-> staked, total_won |-> won, total_lost |-> lost]

get_user_metrics(mstore, user) ==
    IF IsSome(mstore[user]) THEN Unwrap(mstore[user]) ELSE UserMetrics(0, 0, 0)

store_user_metrics(mstore, user, metrics) == [mstore EXCEPT ![user] = Some(metrics)]

bl_record_metrics_stores_each(backend, mstore, auths, user, staked_delta, won_delta, lost_delta) ==
    IF require_backend_auth(backend, auths) # "Ok"
    THEN LedgerOut(Err(require_backend_auth(backend, auths)), mstore)
    ELSE IF ~validate_non_negative(staked_delta).ok THEN LedgerOut(Err("InvalidAmount"), mstore)
    ELSE IF ~validate_non_negative(won_delta).ok THEN LedgerOut(Err("InvalidAmount"), mstore)
    ELSE IF ~validate_non_negative(lost_delta).ok THEN LedgerOut(Err("InvalidAmount"), mstore)
    ELSE LET previous == get_user_metrics(mstore, user)
             staked == checked_add(previous.total_staked, staked_delta)
             won == checked_add(previous.total_won, won_delta)
             lost == checked_add(previous.total_lost, lost_delta)
             keep(r, old) == IF r.ok THEN r.val ELSE old
             updated == UserMetrics(keep(staked, previous.total_staked),
                                    keep(won, previous.total_won),
                                    keep(lost, previous.total_lost))
         IN  IF staked.ok /\ won.ok /\ lost.ok
             THEN LedgerOut(Ok(updated), store_user_metrics(mstore, user, updated))
             ELSE LedgerOut(Err("Overflow"), store_user_metrics(mstore, user, updated))

\* record_metrics as a function of the ledger's storage: the result (Ok with the
\* returned counters, or the error) and the metrics storage after the call.
bl_record_metrics(backend, mstore, auths, user, staked_delta, won_delta, lost_delta) ==
    IF require_backend_auth(backend, auths) # "Ok"
    THEN LedgerOut(Err(require_backend_auth(backend, auths)), mstore)
    ELSE IF ~validate_non_negative(staked_delta).ok THEN LedgerOut(Err("InvalidAmount"), mstore)
    ELSE IF ~validate_non_negative(won_delta).ok THEN LedgerOut(Err("InvalidAmount"), mstore)
    ELSE IF ~validate_non_negative(lost_delta).ok THEN LedgerOut(Err("InvalidAmount"), mstore)
    ELSE LET previous == get_user_metrics(mstore, user)
             staked == checked_add(previous.total_staked, staked_delta)
             won == checked_add(previous.total_won, won_delta)
             lost == checked_add(previous.total_lost, lost_delta)
         IN  IF ~staked.ok THEN LedgerOut(staked, mstore)
             ELSE IF ~won.ok THEN LedgerOut(won, mstore)
             ELSE IF ~lost.ok THEN LedgerOut(lost, mstore)
             ELSE LET updated == UserMetrics(staked.val, won.val, lost.val)
                  IN  LedgerOut(Ok(updated), store_user_metrics(mstore, user, updated))

get_metrics(mstore, user) == get_user_metrics(mstore, user)

\* What a call reports in `last`: "Ok" or the error's name.
ResultName(res) == IF res.ok THEN "Ok" ELSE res.err

(***************************************************************************)
(* Settlement contract (settlement/src/lib.rs)                             *)
(***************************************************************************)
WIN == "WIN"
LOSS == "LOSS"
DRAW == "DRAW"
\* A settlement_type symbol that is none of the three.
VOID == "VOID"
SettlementTypes == {WIN, LOSS, DRAW, VOID}

\* -bet_amount on an i128.  The negation of the minimum overflows: a build
\* with overflow checks traps there, a build without them wraps and yields the
\* minimum again.  overflow_checks says which build runs.
checked_neg(overflow_checks, a) ==
    IF a # I128_MIN THEN Ok(-a)
    ELSE IF overflow_checks THEN Err("HostError")
    ELSE Ok(I128_MIN)

\* The builds of the contract: with overflow checks compiled in, and without.
Builds == BOOLEAN

\* What a settle_bet run leaves behind: its result, the ledger's balance storage,
\* the settled set and the idempotency storage.
SettleOut(result, store, done, m) ==
    [result |-> result, store |-> store, settled |-> done, ops |-> m]

\* The host's transaction semantics: an entry point that returns Err or traps
\* keeps none of its writes (pre is the storage before the call).
host_commit_no_rollback(pre, out) == out

host_commit(pre, out) ==
    IF out.result = "Ok" THEN out
    ELSE SettleOut(out.result, pre.store, pre.settled, pre.ops)

\* env.invoke_contract(bal_contract, "apply_delta", ...): the ledger's apply_delta
\* run in the same transaction; invoke_contract traps when the callee fails.
invoke_apply_delta_ignores_failure(backend, store, auths, user, withdrawable_delta, locked_delta) ==
    LET r == bl_apply_delta(backend, store, auths, user, withdrawable_delta, locked_delta)
    IN  [result |-> "Ok", store |-> r.store]

invoke_apply_delta(backend, store, auths, user, withdrawable_delta, locked_delta) ==
    LET r == bl_apply_delta(backend, store, auths, user, withdrawable_delta, locked_delta)
    IN  IF r.res.ok THEN [result |-> "Ok", store |-> r.store]
        ELSE [result |-> "HostError", store |-> r.store]

\* The fund moves of one settlement type, in the order the code makes them.
settle_win_credits_stake(backend, store, auths, bettor, winner, bet_amount, payout, overflow_checks) ==
    IF ~IsSome(winner) THEN [result |-> "InvalidBet", store |-> store]
    ELSE LET n == checked_neg(overflow_checks, bet_amount)
         IN  IF ~n.ok THEN [result |-> "HostError", store |-> store]
             ELSE LET r1 == invoke_apply_delta(backend, store, auths, bettor, 0, n.val)
                  IN  IF r1.result # "Ok" THEN r1
                      ELSE invoke_apply_delta(backend, r1.store, auths,
                                              Unwrap(winner), bet_amount, 0)

settle_loss_refunds(backend, store, auths, bettor, bet_amount, overflow_checks) ==
    LET n == checked_neg(overflow_checks, bet_amount)
    IN  IF ~n.ok THEN [result |-> "HostError", store |-> store]
        ELSE invoke_apply_delta(backend, store, auths, bettor, bet_amount, n.val)

settle_draw_keeps_stake(backend, store, auths, bettor, bet_amount, overflow_checks) ==
    LET n == checked_neg(overflow_checks, bet_amount)
    IN  IF ~n.ok THEN [result |-> "HostError", store |-> store]
        ELSE invoke_apply_delta(backend, store, auths, bettor, 0, n.val)

settle_win(backend, store, auths, bettor, winner, bet_amount, payout, overflow_checks) ==
    IF ~IsSome(winner) THEN [result |-> "InvalidBet", store |-> store]
    ELSE LET n == checked_neg(overflow_checks, bet_amount)
         IN  IF ~n.ok THEN [result |-> "HostError", store |-> store]
             ELSE LET r1 == invoke_apply_delta(backend, store, auths, bettor, 0, n.val)
                  IN  IF r1.result # "Ok" THEN r1
                      ELSE invoke_apply_delta(backend, r1.store, auths,
                                              Unwrap(winner), payout, 0)

settle_loss(backend, store, auths, bettor, bet_amount, overflow_checks) ==
    LET n == checked_neg(overflow_checks, bet_amount)
    IN  IF ~n.ok THEN [result |-> "HostError", store |-> store]
        ELSE invoke_apply_delta(backend, store, auths, bettor, 0, n.val)

settle_draw(backend, store, auths, bettor, bet_amount, overflow_checks) ==
    LET n == checked_neg(overflow_checks, bet_amount)
    IN  IF ~n.ok THEN [result |-> "HostError", store |-> store]
        ELSE invoke_apply_delta(backend, store, auths, bettor, bet_amount, n.val)

settle_dispatch_validates_stake(backend, store, auths, bettor, winner, bet_amount, payout, settlement_type, overflow_checks) ==
    IF bet_amount <= 0 THEN [result |-> "InvalidBet", store |-> store]
    ELSE IF settlement_type = WIN
    THEN settle_win(backend, store, auths, bettor, winner, bet_amount, payout,
                    overflow_checks)
    ELSE IF settlement_type = LOSS
    THEN settle_loss(backend, store, auths, bettor, bet_amount, overflow_checks)
    ELSE IF settlement_type = DRAW
    THEN settle_draw(backend, store, auths, bettor, bet_amount, overflow_checks)
    ELSE [result |-> "InvalidStatus", store |-> store]

settle_dispatch_else_loss(backend, store, auths, bettor, winner, bet_amount, payout, settlement_type, overflow_checks) ==
    IF settlement_type = WIN /\ IsSome(winner)
    THEN invoke_apply_delta(backend,
                            invoke_apply_delta(backend, store, auths, bettor, 0,
                                               -bet_amount).store,
                            auths, Unwrap(winner), payout, 0)
    ELSE IF settlement_type = DRAW
    THEN invoke_apply_delta(backend, store, auths, bettor, bet_amount, -bet_amount)
    ELSE invoke_apply_delta(backend, store, auths, bettor, 0, -bet_amount)

settle_dispatch(backend, store, auths, bettor, winner, bet_amount, payout, settlement_type, overflow_checks) ==
    IF settlement_type = WIN
    THEN settle_win(backend, store, auths, bettor, winner, bet_amount, payout,
                    overflow_checks)
    ELSE IF settlement_type = LOSS
    THEN settle_loss(backend, store, auths, bettor, bet_amount, overflow_checks)
    ELSE IF settlement_type = DRAW
    THEN settle_draw(backend, store, auths, bettor, bet_amount, overflow_checks)
    ELSE [result |-> "InvalidStatus", store |-> store]

\* The already-settled check of the fund-moving settle_bet.
already_settled(done, bet_id) == bet_id \in done

\* settle_bet(bet_id, bettor, winner, bet_amount, payout, settlement_type), the
\* fund-moving entry point.  s is the storage before the call:
\* [st_backend, st_ledger, settled, bl_backend, store, ops].  The function reads
\* DataKey::Settled(bet_id) but what the source has of it (lines 59-125) never
\* writes that key: a successful run changes the ledger's balances only.
settle_bet(s, auths, bet_id, bettor, winner, bet_amount, payout, settlement_type, overflow_checks) ==
    LET pre == SettleOut("Ok", s.store, s.settled, s.ops)
        run ==
            IF require_backend_auth(s.st_backend, auths) # "Ok"
            THEN SettleOut(require_backend_auth(s.st_backend, auths), s.store, s.settled,
                           s.ops)
            ELSE IF already_settled(s.settled, bet_id)
            THEN SettleOut("BetAlreadySettled", s.store, s.settled, s.ops)
            ELSE IF ~IsSome(s.st_ledger)
            THEN SettleOut("Unauthorized", s.store, s.settled, s.ops)
            ELSE LET d == settle_dispatch(s.bl_backend, s.store, auths, bettor, winner,
                                          bet_amount, payout, settlement_type,
                                          overflow_checks)
                 IN  IF d.result # "Ok"
                     THEN SettleOut(d.result, d.store, s.settled, s.ops)
                     ELSE SettleOut("Ok", d.store, s.settled, s.ops)
    IN  host_commit(pre, run)

settle_bet_op_unguarded(s, auths, operation_hash, bet_id, winner, payout, ttl_seconds, t) ==
    LET pre == SettleOut("Ok", s.store, s.settled, s.ops)
        run ==
            IF require_backend_auth(s.st_backend, auths) # "Ok"
            THEN SettleOut(require_backend_auth(s.st_backend, auths), s.store, s.settled,
                           s.ops)
            ELSE SettleOut("Ok", s.store, s.settled \cup {bet_id}, s.ops)
    IN  host_commit(pre, run)

\* settle_bet(operation_hash, bet_id, winner, payout, ttl_seconds), the
\* replay-guarded entry point, at time t.
settle_bet_op(s, auths, operation_hash, bet_id, winner, payout, ttl_seconds, t) ==
    LET pre == SettleOut("Ok", s.store, s.settled, s.ops)
        run ==
            IF require_backend_auth(s.st_backend, auths) # "Ok"
            THEN SettleOut(require_backend_auth(s.st_backend, auths), s.store, s.settled,
                           s.ops)
            ELSE LET g == ensure_not_replayed(s.ops, SETTLEMENT_SCOPE, operation_hash,
                                              ttl_seconds, t)
                 IN  IF g.result # "Ok"
                     THEN SettleOut(g.result, s.store, s.settled, g.ops)
                     ELSE SettleOut("Ok", s.store, s.settled \cup {bet_id}, g.ops)
    IN  host_commit(pre, run)

is_settled(done, bet_id) == bet_id \in done

\* struct SettlementRecord: the record of one settlement.
SettlementRecord(bet_id, outcome, bettor, winner, payout, timestamp) ==
    [kind |-> "SettlementRecord", bet_id |-> bet_id, outcome |-> outcome,
     bettor |-> bettor, winner |-> winner, payout |-> payout, timestamp |-> timestamp]

\* storage.get(&DataKey::Settled(bet_id)): the one value the source stores under
\* the key is the bool true; no entry point stores a SettlementRecord.
settled_entry(done, bet_id) ==
    IF bet_id \in done THEN Some([kind |-> "bool", value |-> TRUE]) ELSE None

(***************************************************************************)
(* Betting contract (betting/src/lib.rs): spin execution.  `auths` is the  *)
(* set of addresses whose authorization the invocation carries; a failed   *)
(* require_auth is a host trap.                                            *)
(***************************************************************************)

SpinExecution(spin_id, executor, timestamp) ==
    [spin_id |-> spin_id, executor |-> executor, timestamp |-> timestamp]

\* What an execute_spin run leaves behind: its result, the SpinExecutions map and
\* the idempotency storage.
SpinOut(result, executions, m) == [result |-> result, executions |-> executions, ops |-> m]

\* The host's transaction semantics for the betting contract's storage.
host_commit_spin(pre, out) ==
    IF out.result = "Ok" THEN out ELSE SpinOut(out.result, pre.executions, pre.ops)

execute_spin_with_ttl_id_first(s, auths, spin_id, spin_hash, executor, ttl_seconds, t) ==
    LET pre == SpinOut("Ok", s.executions, s.ops)
        run ==
            IF require_auth(auths, executor) # "Ok"
            THEN SpinOut("HostError", s.executions, s.ops)
            ELSE IF ~IsSome(s.bt_backend)
            THEN SpinOut("Unauthorized", s.executions, s.ops)
            ELSE IF require_auth(auths, Unwrap(s.bt_backend)) # "Ok"
            THEN SpinOut("HostError", s.executions, s.ops)
            ELSE IF IsSome(s.executions[spin_id])
            THEN SpinOut("SpinAlreadyExecuted", s.executions, s.ops)
            ELSE LET g == ensure_not_replayed(s.ops, SPIN_SCOPE, spin_hash, ttl_seconds, t)
                 IN  IF g.result # "Ok"
                     THEN SpinOut(g.result, s.executions, g.ops)
                     ELSE SpinOut("Ok",
                                  [s.executions EXCEPT
                                     ![spin_id] = Some(SpinExecution(spin_id, executor, t))],
                                  g.ops)
    IN  host_commit_spin(pre, run)

\* execute_spin_with_ttl(spin_id, spin_hash, signature, executor, ttl_seconds) at
\* time t; the signature is not read.  s is the storage before the call:
\* [bt_backend, executions, ops].
execute_spin_with_ttl(s, auths, spin_id, spin_hash, executor, ttl_seconds, t) ==
    LET pre == SpinOut("Ok", s.executions, s.ops)
        run ==
            IF require_auth(auths, executor) # "Ok"
            THEN SpinOut("HostError", s.executions, s.ops)
            ELSE IF ~IsSome(s.bt_backend)
            THEN SpinOut("Unauthorized", s.executions, s.ops)
            ELSE IF require_auth(auths, Unwrap(s.bt_backend)) # "Ok"
            THEN SpinOut("HostError", s.executions, s.ops)
            ELSE LET g == ensure_not_replayed(s.ops, SPIN_SCOPE, spin_hash, ttl_seconds, t)
                 IN  IF g.result # "Ok"
                     THEN SpinOut(g.result, s.executions, g.ops)
                     ELSE IF IsSome(s.executions[spin_id])
                     THEN SpinOut("SpinAlreadyExecuted", s.executions, g.ops)
                     ELSE SpinOut("Ok",
                                  [s.executions EXCEPT
                                     ![spin_id] = Some(SpinExecution(spin_id, executor, t))],
                                  g.ops)
    IN  host_commit_spin(pre, run)

execute_spin(s, auths, spin_id, spin_hash, executor, t) ==
    execute_spin_with_ttl(s, auths, spin_id, spin_hash, executor, None, t)

is_spin_executed(executions, spin_id) == IsSome(executions[spin_id])

(***************************************************************************)
(* Player card contract (player_card/src/lib.rs): mint and transfer.  The  *)
(* storage module holds the admin, the next token id and the owner of each *)
(* token; initialize sets the next token id to 1.                          *)
(***************************************************************************)
has_admin(admin) == IsSome(admin)

\* get_admin on a contract with no admin stored traps.
get_admin(admin) == IF IsSome(admin) THEN Ok(Unwrap(admin)) ELSE Err("HostError")

get_next_token_id(next) == Unwrap(next)

increment_next_token_id(next) == Some(Unwrap(next) + 1)

set_owner(owner, token_id, to) == [owner EXCEPT ![token_id] = Some(to)]

\* get_owner on a token that has no owner traps.
get_owner(owner, token_id) ==
    IF token_id \in DOMAIN owner /\ IsSome(owner[token_id])
    THEN Ok(Unwrap(owner[token_id]))
    ELSE Err("HostError")

total_supply(next) == get_next_token_id(next) - 1

\* What a mint run leaves behind: its result, the token id it returns, the next
\* token id, the owners and the idempotency storage.
MintOut(result, token_id, next, owner, m) ==
    [result |-> result, token_id |-> token_id, next |-> next, owner |-> owner, ops |-> m]

\* The host's transaction semantics for the player card contract's storage.
host_commit_mint(pre, out) ==
    IF out.result = "Ok" THEN out
    ELSE MintOut(out.result, None, pre.next, pre.owner, pre.ops)

mint_drops_guard_result(s, auths, operation_hash, to, ttl_seconds, t) ==
    LET pre == MintOut("Ok", None, s.next, s.owner, s.ops)
        admin == get_admin(s.admin)
        run ==
            IF ~admin.ok THEN MintOut(admin.err, None, s.next, s.owner, s.ops)
            ELSE IF require_auth(auths, admin.val) # "Ok"
            THEN MintOut("HostError", None, s.next, s.owner, s.ops)
            ELSE LET g == ensure_not_replayed(s.ops, NFT_MINT_SCOPE, operation_hash,
                                              ttl_seconds, t)
                     token_id == get_next_token_id(s.next)
                 IN  MintOut("Ok", Some(token_id), increment_next_token_id(s.next),
                             set_owner(s.owner, token_id, to), g.ops)
    IN  host_commit_mint(pre, run)

\* mint(operation_hash, to, token_uri, ttl_seconds) at time t.  s is the storage
\* before the call: [admin, next, owner, ops].
mint(s, auths, operation_hash, to, ttl_seconds, t) ==
    LET pre == MintOut("Ok", None, s.next, s.owner, s.ops)
        admin == get_admin(s.admin)
        run ==
            IF ~admin.ok THEN MintOut(admin.err, None, s.next, s.owner, s.ops)
            ELSE IF require_auth(auths, admin.val) # "Ok"
            THEN MintOut("HostError", None, s.next, s.owner, s.ops)
            ELSE LET g == ensure_not_replayed(s.ops, NFT_MINT_SCOPE, operation_hash,
                                              ttl_seconds, t)
                 IN  IF g.result # "Ok"
                     THEN MintOut(g.result, None, s.next, s.owner, g.ops)
                     ELSE LET token_id == get_next_token_id(s.next)
                          IN  MintOut("Ok", Some(token_id),
                                      increment_next_token_id(s.next),
                                      set_owner(s.owner, token_id, to), g.ops)
    IN  host_commit_mint(pre, run)

\* transfer(from, to, token_id): the result and the owners after the call.  A
\* missing authorization of `from`, a token without owner and an owner other
\* than `from` all trap, and a trapped call writes nothing.
TransferOut(result, owner) == [result |-> result, owner |-> owner]

transfer(owner, auths, from, to, token_id) ==
    IF require_auth(auths, from) # "Ok" THEN TransferOut("HostError", owner)
    ELSE LET current_owner == get_owner(owner, token_id)
         IN  IF ~current_owner.ok THEN TransferOut(current_owner.err, owner)
             ELSE IF current_owner.val # from THEN TransferOut("HostError", owner)
             ELSE TransferOut("Ok", set_owner(owner, token_id, to))

owner_of(owner, token_id) == get_owner(owner, token_id)

(***************************************************************************)
(* The record of the last call: the entry point and its result, and the    *)
(* arguments when the call went through (result "Ok", or a returned bool). *)
(***************************************************************************)
CallRecord(op, result, args) ==
    IF result \in {"Ok", "true", "false"}
    THEN [op |-> op, result |-> result] @@ args
    ELSE [op |-> op, result |-> result]

BoolName(b) == IF b THEN "true" ELSE "false"

(***************************************************************************)
(* Initial state: the contracts as deployed, nothing stored                *)
(***************************************************************************)
Init ==
    /\ now = 0
    /\ ops = [k \in OpKeys |-> None]
    /\ bl_backend = None
    /\ bl_balance = [u \in Users |-> None]
    /\ bl_metrics = [u \in Users |-> None]
    /\ st_backend = None
    /\ st_ledger = None
    /\ settled = {}
    /\ bt_backend = None
    /\ spin_executions = [i \in SpinIds |-> None]
    /\ pc_admin = None
    /\ pc_next_token_id = None
    /\ pc_owner = [i \in TokenIds |-> None]
    /\ last = [op |-> "none", result |-> "Ok"]

Tick_rewinds ==
    /\ now' \in {now - 1, now + 1} \cap (0..MaxTime)
    /\ last' = [op |-> "tick", result |-> "Ok"]
    /\ UNCHANGED <<ops, bl_backend, bl_balance, st_backend, st_ledger, settled, bl_metrics,
                       bt_vars, pc_vars>>

\* The environment advances the ledger timestamp.
Tick ==
    /\ now < MaxTime
    /\ now' = now + 1
    /\ last' = [op |-> "tick", result |-> "Ok"]
    /\ UNCHANGED <<ops, bl_backend, bl_balance, st_backend, st_ledger, settled, bl_metrics,
                       bt_vars, pc_vars>>

(***************************************************************************)
(* The idempotency engine called as a library, under any scope             *)
(***************************************************************************)
Guard(scope, h, ttl) ==
    \E r \in {ensure_not_replayed(ops, scope, h, ttl, now)} :
        /\ ops' = r.ops
        /\ last' = IF r.result = "Ok"
                   THEN [op |-> "ensure_not_replayed", result |-> r.result,
                         scope |-> scope, hash |-> h, ttl |-> ttl]
                   ELSE [op |-> "ensure_not_replayed", result |-> r.result,
                         scope |-> scope, hash |-> h]
        /\ UNCHANGED <<now, bl_backend, bl_balance, st_backend, st_ledger, settled, bl_metrics,
                       bt_vars, pc_vars>>

Cleanup(scope, h) ==
    \E r \in {cleanup_operation(ops, scope, h, now)} :
        /\ ops' = r.ops
        /\ last' = CallRecord("cleanup_operation", BoolName(r.result),
                               [scope |-> scope, hash |-> h])
        /\ UNCHANGED <<now, bl_backend, bl_balance, st_backend, st_ledger, settled, bl_metrics,
                       bt_vars, pc_vars>>

IsExecuted(scope, h) ==
    /\ last' = CallRecord("is_operation_executed",
                           BoolName(is_operation_executed(ops, scope, h, now)),
                           [scope |-> scope, hash |-> h])
    /\ UNCHANGED <<now, ops, bl_backend, bl_balance, st_backend, st_ledger, settled, bl_metrics,
                       bt_vars, pc_vars>>

(***************************************************************************)
(* Balance ledger entry points                                             *)
(***************************************************************************)
BL_Initialize_overwrites(backend_signer) ==
    /\ bl_backend' = Some(backend_signer)
    /\ last' = CallRecord("bl_initialize", "Ok", [signer |-> backend_signer])
    /\ UNCHANGED <<now, ops, bl_balance, st_backend, st_ledger, settled, bl_metrics,
                       bt_vars, pc_vars>>

BL_Initialize(backend_signer) ==
    /\ IF IsSome(bl_backend)
       THEN /\ last' = CallRecord("bl_initialize", "AlreadyInitialized",
                                   [signer |-> backend_signer])
            /\ UNCHANGED bl_backend
       ELSE /\ bl_backend' = Some(backend_signer)
            /\ last' = CallRecord("bl_initialize", "Ok", [signer |-> backend_signer])
    /\ UNCHANGED <<now, ops, bl_balance, st_backend, st_ledger, settled, bl_metrics,
                       bt_vars, pc_vars>>

SetBalance(auths, user, withdrawable, locked) ==
    \E r \in {bl_set_balance(bl_backend, bl_balance, auths, user, withdrawable, locked)} :
        /\ bl_balance' = r.store
        /\ last' = CallRecord("set_balance", ResultName(r.res),
                               [user |-> user, withdrawable |-> withdrawable,
                                locked |-> locked])
        /\ UNCHANGED <<now, ops, bl_backend, st_backend, st_ledger, settled, bl_metrics,
                       bt_vars, pc_vars>>

ApplyDelta(auths, user, withdrawable_delta, locked_delta) ==
    \E r \in {bl_apply_delta(bl_backend, bl_balance, auths, user,
                            withdrawable_delta, locked_delta)} :
        /\ bl_balance' = r.store
        /\ last' = CallRecord("apply_delta", ResultName(r.res),
                               [user |-> user, withdrawable_delta |-> withdrawable_delta,
                                locked_delta |-> locked_delta])
        /\ UNCHANGED <<now, ops, bl_backend, st_backend, st_ledger, settled, bl_metrics,
                       bt_vars, pc_vars>>

LockFunds(auths, user, amount) ==
    \E r \in {bl_lock_funds(bl_backend, bl_balance, auths, user, amount)} :
        /\ bl_balance' = r.store
        /\ last' = CallRecord("lock_funds", ResultName(r.res),
                               [user |-> user, amount |-> amount])
        /\ UNCHANGED <<now, ops, bl_backend, st_backend, st_ledger, settled, bl_metrics,
                       bt_vars, pc_vars>>

UnlockFunds(auths, user, amount) ==
    \E r \in {bl_unlock_funds(bl_backend, bl_balance, auths, user, amount)} :
        /\ bl_balance' = r.store
        /\ last' = CallRecord("unlock_funds", ResultName(r.res),
                               [user |-> user, amount |-> amount])
        /\ UNCHANGED <<now, ops, bl_backend, st_backend, st_ledger, settled, bl_metrics,
                       bt_vars, pc_vars>>

\* get_total(user): a view, open to everyone.
GetTotal(user) ==
    \E r \in {get_total(bl_balance, user)} :
        /\ last' = IF r.ok
                   THEN [op |-> "get_total", result |-> "Ok", user |-> user,
                         total |-> r.val]
                   ELSE [op |-> "get_total", result |-> r.err, user |-> user]
        /\ UNCHANGED <<now, ops, bl_backend, bl_balance, bl_metrics, st_backend,
                       st_ledger, settled,
                       bt_vars, pc_vars>>

RecordMetrics(auths, user, staked_delta, won_delta, lost_delta) ==
    \E r \in {bl_record_metrics(bl_backend, bl_metrics, auths, user, staked_delta,
                               won_delta, lost_delta)} :
        /\ bl_metrics' = r.store
        /\ last' = CallRecord("record_metrics", ResultName(r.res),
                               [user |-> user, staked_delta |-> staked_delta,
                                won_delta |-> won_delta, lost_delta |-> lost_delta])
        /\ UNCHANGED <<now, ops, bl_backend, bl_balance, st_backend, st_ledger, settled,
                       bt_vars, pc_vars>>

\* get_metrics(user): a view, open to everyone.
GetMetrics(user) ==
    /\ last' = [op |-> "get_metrics", result |-> "Ok", user |-> user,
                metrics |-> get_metrics(bl_metrics, user)]
    /\ UNCHANGED <<now, ops, bl_backend, bl_balance, bl_metrics, st_backend, st_ledger,
                   settled,
                       bt_vars, pc_vars>>

(***************************************************************************)
(* Settlement entry points                                                 *)
(***************************************************************************)
ST_Initialize_once(backend_signer) ==
    /\ IF IsSome(st_backend)
       THEN /\ last' = CallRecord("st_initialize", "AlreadyInitialized",
                                   [signer |-> backend_signer])
            /\ UNCHANGED <<st_backend, st_ledger>>
       ELSE /\ st_backend' = Some(backend_signer)
            /\ st_ledger' = Some("balance_ledger")
            /\ last' = CallRecord("st_initialize", "Ok", [signer |-> backend_signer])
    /\ UNCHANGED <<now, ops, bl_backend, bl_balance, settled, bl_metrics, bt_vars, pc_vars>>

\* initialize(backend_signer, balance_ledger): lines 36-40.
ST_Initialize(backend_signer) ==
    /\ st_backend' = Some(backend_signer)
    /\ st_ledger' = Some("balance_ledger")
    /\ last' = CallRecord("st_initialize", "Ok", [signer |-> backend_signer])
    /\ UNCHANGED <<now, ops, bl_backend, bl_balance, settled, bl_metrics,
                       bt_vars, pc_vars>>

\* initialize(backend_signer): lines 126-130.
ST_InitializeSigner(backend_signer) ==
    /\ st_backend' = Some(backend_signer)
    /\ last' = CallRecord("st_initialize_signer", "Ok", [signer |-> backend_signer])
    /\ UNCHANGED <<now, ops, bl_backend, bl_balance, st_ledger, settled, bl_metrics,
                       bt_vars, pc_vars>>

Storage ==
    [st_backend |-> st_backend, st_ledger |-> st_ledger, settled |-> settled,
     bl_backend |-> bl_backend, store |-> bl_balance, ops |-> ops]

\* The build that runs is not part of the program's state: either one may have
\* produced the contract.
SettleBet(auths, bet_id, bettor, winner, bet_amount, payout, settlement_type) ==
    \E r \in {settle_bet(Storage, auths, bet_id, bettor, winner, bet_amount, payout,
                        settlement_type, overflow_checks) : overflow_checks \in Builds} :
        /\ bl_balance' = r.store
        /\ settled' = r.settled
        /\ ops' = r.ops
        /\ last' = CallRecord("settle_bet", r.result,
                               [bet_id |-> bet_id, bettor |-> bettor, winner |-> winner,
                                bet_amount |-> bet_amount, payout |-> payout,
                                settlement_type |-> settlement_type])
        /\ UNCHANGED <<now, bl_backend, st_backend, st_ledger, bl_metrics,
                       bt_vars, pc_vars>>

\* The runs of settle_bet on the call c = <<auths, bet_id, bettor, winner,
\* bet_amount, payout, settlement_type>> in the current state, one per build.
SettleBetRuns(c) ==
    {settle_bet(Storage, c[1], c[2], c[3], c[4], c[5], c[6], c[7], overflow_checks) :
        overflow_checks \in Builds}

SettleBetOp(auths, operation_hash, bet_id, winner, payout, ttl_seconds) ==
    \E r \in {settle_bet_op(Storage, auths, operation_hash, bet_id, winner, payout,
                           ttl_seconds, now)} :
        /\ bl_balance' = r.store
        /\ settled' = r.settled
        /\ ops' = r.ops
        /\ last' = CallRecord("settle_bet_op", r.result,
                               [operation_hash |-> operation_hash, bet_id |-> bet_id,
                                ttl_seconds |-> ttl_seconds])
        /\ UNCHANGED <<now, bl_backend, st_backend, st_ledger, bl_metrics,
                       bt_vars, pc_vars>>

(***************************************************************************)
(* Betting entry points                                                    *)
(***************************************************************************)
BT_Initialize(backend_signer) ==
    /\ bt_backend' = Some(backend_signer)
    /\ last' = CallRecord("bt_initialize", "Ok", [signer |-> backend_signer])
    /\ UNCHANGED <<now, ops, bl_backend, bl_balance, bl_metrics, st_backend, st_ledger,
                   settled, spin_executions, pc_vars>>

BettingStorage == [bt_backend |-> bt_backend, executions |-> spin_executions, ops |-> ops]

ExecuteSpinWithTtl(auths, spin_id, spin_hash, executor, ttl_seconds) ==
    \E r \in {execute_spin_with_ttl(BettingStorage, auths, spin_id, spin_hash, executor,
                                   ttl_seconds, now)} :
        /\ spin_executions' = r.executions
        /\ ops' = r.ops
        /\ last' = CallRecord("execute_spin", r.result,
                               [spin_id |-> spin_id, spin_hash |-> spin_hash,
                                ttl_seconds |-> ttl_seconds])
        /\ UNCHANGED <<now, bl_backend, bl_balance, bl_metrics, st_backend, st_ledger,
                       settled, bt_backend, pc_vars>>

ExecuteSpin(auths, spin_id, spin_hash, executor) ==
    ExecuteSpinWithTtl(auths, spin_id, spin_hash, executor, None)

\* is_spin_executed(spin_id): a view, open to everyone.
IsSpinExecuted(spin_id) ==
    /\ last' = [op |-> "is_spin_executed",
                result |-> BoolName(is_spin_executed(spin_executions, spin_id)),
                spin_id |-> spin_id]
    /\ UNCHANGED <<now, ops, bl_backend, bl_balance, bl_metrics, st_backend, st_ledger,
                   settled, bt_vars, pc_vars>>

\* BettingContract::cleanup_spin_hash and ::is_spin_hash_used fix the scope.
BT_CleanupSpinHash(spin_hash) == Cleanup(SPIN_SCOPE, spin_hash)

BT_IsSpinHashUsed(spin_hash) == IsExecuted(SPIN_SCOPE, spin_hash)

(***************************************************************************)
(* Player card entry points                                                *)
(***************************************************************************)
\* initialize(admin): panics when an admin is stored.
PC_Initialize(admin) ==
    /\ IF has_admin(pc_admin)
       THEN /\ last' = CallRecord("pc_initialize", "HostError", [admin |-> admin])
            /\ UNCHANGED <<pc_admin, pc_next_token_id>>
       ELSE /\ pc_admin' = Some(admin)
            /\ pc_next_token_id' = Some(1)
            /\ last' = CallRecord("pc_initialize", "Ok", [admin |-> admin])
    /\ UNCHANGED <<now, ops, bl_backend, bl_balance, bl_metrics, st_backend, st_ledger,
                   settled, bt_vars, pc_owner>>

CardStorage ==
    [admin |-> pc_admin, next |-> pc_next_token_id, owner |-> pc_owner, ops |-> ops]

\* The model stops minting after MaxMints tokens: a mint that would succeed with a
\* later token id is not taken.
Mint(auths, operation_hash, to, ttl_seconds) ==
    \E r \in {mint(CardStorage, auths, operation_hash, to, ttl_seconds, now)} :
        /\ r.result = "Ok" => Unwrap(r.token_id) \in TokenIds
        /\ pc_next_token_id' = r.next
        /\ pc_owner' = r.owner
        /\ ops' = r.ops
        /\ last' = CallRecord("mint", r.result,
                               [operation_hash |-> operation_hash, to |-> to,
                                ttl_seconds |-> ttl_seconds, token_id |-> r.token_id])
        /\ UNCHANGED <<now, bl_backend, bl_balance, bl_metrics, st_backend, st_ledger,
                       settled, bt_vars, pc_admin>>

Transfer(auths, from, to, token_id) ==
    \E r \in {transfer(pc_owner, auths, from, to, token_id)} :
        /\ pc_owner' = r.owner
        /\ last' = CallRecord("transfer", r.result,
                               [from |-> from, to |-> to, token_id |-> token_id])
        /\ UNCHANGED <<now, ops, bl_backend, bl_balance, bl_metrics, st_backend,
                       st_ledger, settled, bt_vars, pc_admin, pc_next_token_id>>

\* owner_of(token_id): a view, open to everyone; it traps on a token without owner.
OwnerOf(token_id) ==
    \E r \in {owner_of(pc_owner, token_id)} :
        /\ last' = CallRecord("owner_of", IF r.ok THEN r.val ELSE r.err,
                               [token_id |-> token_id])
        /\ UNCHANGED <<now, ops, bl_backend, bl_balance, bl_metrics, st_backend,
                       st_ledger, settled, bt_vars, pc_vars>>

\* PlayerCardContract::cleanup_mint_operation and ::is_mint_operation_executed fix
\* the scope.
PC_CleanupMintOperation(operation_hash) == Cleanup(NFT_MINT_SCOPE, operation_hash)

PC_IsMintOperationExecuted(operation_hash) == IsExecuted(NFT_MINT_SCOPE, operation_hash)

\* SettlementContract::cleanup_operation and ::is_operation_executed fix the scope.
ST_CleanupOperation(operation_hash) == Cleanup(SETTLEMENT_SCOPE, operation_hash)

ST_IsOperationExecuted(operation_hash) == IsExecuted(SETTLEMENT_SCOPE, operation_hash)

\* The keys the library specification exercises: two hashes of one scope, and one
\* hash shared by two scopes.
IdemKeys == {<<SETTLEMENT_SCOPE, "h1">>, <<SETTLEMENT_SCOPE, "h2">>, <<SPIN_SCOPE, "h1">>}

NextIdem ==
    \/ Tick
    \/ \E k \in IdemKeys, ttl \in Ttls : Guard(k[1], k[2], ttl)
    \/ \E k \in IdemKeys : Cleanup(k[1], k[2])
    \/ \E k \in IdemKeys : IsExecuted(k[1], k[2])

SpecIdem == Init /\ [][NextIdem]_vars

(***************************************************************************)
(* Specifications.  Each draws the entry points' arguments from small sets. *)
(***************************************************************************)
BACKEND == "backend"
MALLORY == "mallory"
\* The authorizations an invocation carries: the backend's, a stranger's, both,
\* and those of one signer alone.
BY_BACKEND == {BACKEND}
BY_MALLORY == {MALLORY}
BY_BOTH == {BACKEND, MALLORY}
SignerAuths == {{signer} : signer \in Signers}
\* Amounts offered to set_balance, to apply_delta, and to lock_funds and unlock_funds.
SetAmounts == {-1, 0, I128_MAX}
DeltaAmounts == {-1, 0, 1}
LockAmounts == {-1, 0, 1, I128_MAX}
\* Amounts offered as stake and payout of a settlement.
SettleAmounts == {1, 2}
Winners == {None} \cup {Some(u) : u \in Users}

\* Calls of the fund-moving settle_bet: <<auths, bet_id, bettor, winner,
\* bet_amount, payout, settlement_type>>, all for the bettor alice.  WIN with every
\* winner and payout; LOSS, DRAW and an unknown type with no winner and payout 0;
\* one call authorized by a stranger alone, and one by the backend and the
\* stranger together.
SettleBetCalls ==
    ({BY_BACKEND} \X Bets \X {"alice"} \X Winners \X SettleAmounts \X SettleAmounts \X {WIN})
    \cup ({BY_BACKEND} \X Bets \X {"alice"} \X {None} \X SettleAmounts \X {0}
             \X {LOSS, DRAW, VOID})
    \cup {<<BY_MALLORY, "bet1", "alice", Some("bob"), 1, 2, WIN>>,
          <<BY_BOTH, "bet1", "alice", Some("bob"), 1, 2, WIN>>}

\* Calls of the ledger's mutators: <<auths, user, withdrawable, locked>> and
\* <<auths, user, amount>>.
SetBalanceCalls ==
    ({BY_BACKEND} \X Users \X SetAmounts \X SetAmounts) \cup {<<BY_MALLORY, "alice", 1, 0>>}
ApplyDeltaCalls ==
    ({BY_BACKEND} \X Users \X DeltaAmounts \X DeltaAmounts) \cup {<<BY_MALLORY, "alice", 1, 0>>}
LockCalls ==
    ({BY_BACKEND} \X Users \X LockAmounts) \cup {<<BY_MALLORY, "alice", 1>>}

\* Calls of the replay-guarded settle_bet offered beside the ledger: <<auths,
\* operation_hash, bet_id, winner, payout, ttl_seconds>>.
FundsSettleBetOpCalls == {BY_BACKEND} \X {"h1"} \X Bets \X {"bob"} \X {1} \X {None}

\* The ledger and the two settle_bet entry points, on a clock that stands still.
\* The record_metrics call offered beside the balances: one by a stranger.
FundsRecordMetricsCalls == {<<BY_MALLORY, "alice", 1, 1, 1>>}

NextFunds ==
    \/ \E signer \in Signers : BL_Initialize(signer)
    \/ ST_Initialize(BACKEND)
    \/ \E c \in SetBalanceCalls : SetBalance(c[1], c[2], c[3], c[4])
    \/ \E c \in ApplyDeltaCalls : ApplyDelta(c[1], c[2], c[3], c[4])
    \/ \E c \in LockCalls : LockFunds(c[1], c[2], c[3])
    \/ \E c \in LockCalls : UnlockFunds(c[1], c[2], c[3])
    \/ \E u \in Users : GetTotal(u)
    \/ \E c \in FundsRecordMetricsCalls : RecordMetrics(c[1], c[2], c[3], c[4], c[5])
    \/ \E c \in SettleBetCalls : SettleBet(c[1], c[2], c[3], c[4], c[5], c[6], c[7])
    \/ \E c \in FundsSettleBetOpCalls : SettleBetOp(c[1], c[2], c[3], c[4], c[5], c[6])

SpecFunds == Init /\ [][NextFunds]_vars

\* Calls of record_metrics: <<auths, user, staked_delta, won_delta, lost_delta>>.
\* Every triple of 0 and 1; one negative delta beside two valid ones; one delta of
\* I128_MAX beside two valid ones; one call by a stranger.
MetricTriples ==
    ({0, 1} \X {0, 1} \X {0, 1})
    \cup {<<-1, 1, 1>>, <<1, -1, 1>>, <<1, 1, -1>>}
    \cup {<<I128_MAX, 1, 1>>, <<1, I128_MAX, 1>>, <<1, 1, I128_MAX>>}
RecordMetricsCalls ==
    {<<BY_BACKEND, u, t[1], t[2], t[3]>> : u \in Users, t \in MetricTriples}
    \cup {<<BY_MALLORY, "alice", 1, 1, 1>>}

NextMetrics ==
    \/ BL_Initialize(BACKEND)
    \/ \E c \in RecordMetricsCalls : RecordMetrics(c[1], c[2], c[3], c[4], c[5])
    \/ \E u \in Users : GetMetrics(u)

SpecMetrics == Init /\ [][NextMetrics]_vars

\* The two settle_bet entry points with the replay guard, the clock and cleanup,
\* over one funded bettor.
ReplayTtls == {None, Some(1)}
SettleBetOpCalls ==
    ({BY_BACKEND} \X Hashes \X Bets \X {"bob"} \X {1} \X ReplayTtls)
    \cup {<<BY_MALLORY, "h1", "bet1", "bob", 1, None>>}
ReplaySettleBetCalls ==
    ({BY_BACKEND} \X Bets \X {"alice"} \X {None, Some("bob")} \X {1} \X {2} \X SettlementTypes)
    \cup {<<BY_MALLORY, "bet1", "alice", Some("bob"), 1, 2, WIN>>}

Next ==
    \/ Tick
    \/ BL_Initialize(BACKEND)
    \/ ST_Initialize(BACKEND)
    \/ ST_InitializeSigner(BACKEND)
    \/ SetBalance(BY_BACKEND, "alice", 0, I128_MAX)
    \/ \E c \in ReplaySettleBetCalls : SettleBet(c[1], c[2], c[3], c[4], c[5], c[6], c[7])
    \/ \E c \in SettleBetOpCalls : SettleBetOp(c[1], c[2], c[3], c[4], c[5], c[6])
    \/ \E h \in Hashes : ST_CleanupOperation(h)
    \/ \E h \in Hashes : ST_IsOperationExecuted(h)

Spec == Init /\ [][Next]_vars

(***************************************************************************)
(* Properties of the idempotency engine (SpecIdem)                         *)
(***************************************************************************)
\* A record is live when it has no TTL, or now - executed_at < ttl_seconds.
Live(record, t) ==
    \/ record.ttl_seconds = None
    \/ t - record.executed_at < Unwrap(record.ttl_seconds)

\* The key of the idempotency call recorded in a `last` record.
KeyOf(call) == <<call.scope, call.hash>>

\* C5: a guard on a key with no record succeeds and writes a record stamped with
\* the current time and the call's TTL; a guard on a key whose record is live (no
\* TTL, or now - executed_at < ttl) fails with DuplicateOperation and writes
\* nothing.
C5_GuardThenDuplicate ==
    [][last'.op = "ensure_not_replayed" =>
        LET k == KeyOf(last')
        IN  /\ ops[k] = None =>
                  /\ last'.result = "Ok"
                  /\ ops'[k] = Some(ExecutionRecord(now, last'.ttl))
            /\ (IsSome(ops[k]) /\ Live(Unwrap(ops[k]), now)) =>
                  /\ last'.result = "DuplicateOperation"
                  /\ ops' = ops]_vars

\* C5 witness: a guard was just rejected on a TTL-bounded record one second into
\* its two-second window.
C5_Witness ==
    /\ last.op = "ensure_not_replayed"
    /\ last.result = "DuplicateOperation"
    /\ ops[<<SETTLEMENT_SCOPE, "h1">>] = Some(ExecutionRecord(now - 1, Some(2)))
    /\ ops[<<SETTLEMENT_SCOPE, "h2">>] = None
    /\ ops[<<SPIN_SCOPE, "h1">>] = None

\* C6: on a record with TTL t, once now - executed_at >= t, cleanup returns true
\* and deletes the record; cleanup on a key with no record returns false, so true
\* is returned once; a record appears only through a successful guard; and a
\* guard on the expired (or deleted) record succeeds.
C6_CleanupOnceThenGuardAgain ==
    [][/\ last'.op = "cleanup_operation" =>
            LET k == KeyOf(last')
            IN  /\ (/\ IsSome(ops[k])
                    /\ IsSome(Unwrap(ops[k]).ttl_seconds)
                    /\ now - Unwrap(ops[k]).executed_at
                          >= Unwrap(Unwrap(ops[k]).ttl_seconds)) =>
                      (last'.result = "true" /\ ops'[k] = None)
                /\ ops[k] = None => (last'.result = "false" /\ ops' = ops)
                /\ last'.result = "true" => (IsSome(ops[k]) /\ ops'[k] = None)
       /\ \A k \in IdemKeys :
            (ops[k] = None /\ ops'[k] # None) =>
                (last'.op = "ensure_not_replayed" /\ last'.result = "Ok"
                 /\ KeyOf(last') = k)
       /\ last'.op = "ensure_not_replayed" =>
            LET k == KeyOf(last')
            IN  (IsSome(ops[k]) /\ ~Live(Unwrap(ops[k]), now)) =>
                    (last'.result = "Ok"
                     /\ ops'[k] = Some(ExecutionRecord(now, last'.ttl)))]_vars

\* C6 witness: the clock has advanced and cleanup has just returned true, deleting
\* an expired record, while another key still holds a live TTL-bounded record.
C6_Witness ==
    /\ last.op = "cleanup_operation"
    /\ last.result = "true"
    /\ KeyOf(last) = <<SETTLEMENT_SCOPE, "h1">>
    /\ ops[<<SETTLEMENT_SCOPE, "h1">>] = None
    /\ now > 0
    /\ ops[<<SETTLEMENT_SCOPE, "h2">>] = Some(ExecutionRecord(now - 1, Some(2)))

(***************************************************************************)
(* Properties of settlement replay protection (Spec)                       *)
(***************************************************************************)
SettleOps == {"settle_bet", "settle_bet_op"}

Authorized(auths) == require_backend_auth(st_backend, auths) = "Ok"

\* C1 as claimed: a settle call rejected with DuplicateOperation or
\* BetAlreadySettled changes no balance, and the fund movement of a wager is
\* applied at most once: a fund-moving settle_bet that succeeds right after a
\* successful one for the same wager moves no funds.
C1_FundsMoveAtMostOncePerWager ==
    [][/\ (/\ last'.op \in SettleOps
           /\ last'.result \in {"DuplicateOperation", "BetAlreadySettled"}) =>
              bl_balance' = bl_balance
       /\ (/\ last.op = "settle_bet" /\ last.result = "Ok"
           /\ last'.op = "settle_bet" /\ last'.result = "Ok"
           /\ last'.bet_id = last.bet_id) =>
              bl_balance' = bl_balance]_vars

\* C2 as claimed: once a wager is settled, every settle call for it by the
\* authorized backend fails with BetAlreadySettled, through the fund-moving entry
\* point and through the replay-guarded one with a hash that has no record.
C2_SettledWagerRejectsEverySettle ==
    [][/\ last'.op = "settle_bet" =>
            \A c \in ReplaySettleBetCalls :
                (/\ Authorized(c[1])
                 /\ c[2] \in settled
                 /\ SettleBet(c[1], c[2], c[3], c[4], c[5], c[6], c[7]))
                    => last'.result = "BetAlreadySettled"
       /\ last'.op = "settle_bet_op" =>
            \A c \in SettleBetOpCalls :
                (/\ Authorized(c[1])
                 /\ c[3] \in settled
                 /\ ops[<<SETTLEMENT_SCOPE, c[2]>>] = None
                 /\ SettleBetOp(c[1], c[2], c[3], c[4], c[5], c[6]))
                    => last'.result = "BetAlreadySettled"]_vars

\* C3 as claimed: right after cleanup has removed the expired operation record of
\* a hash, a settle call that re-submits that hash for a settled wager fails with
\* BetAlreadySettled and moves no funds.
C3_NoResettleAfterCleanup ==
    [][(/\ last.op = "cleanup_operation"
        /\ last.result = "true"
        /\ last'.op = "settle_bet_op") =>
            \A c \in SettleBetOpCalls :
                (/\ Authorized(c[1])
                 /\ c[2] = last.hash
                 /\ c[3] \in settled
                 /\ SettleBetOp(c[1], c[2], c[3], c[4], c[5], c[6]))
                    => (last'.result = "BetAlreadySettled" /\ bl_balance' = bl_balance)]_vars

(***************************************************************************)
(* Properties of the ledger and of the fund-moving settlement (SpecFunds)  *)
(***************************************************************************)
Withdrawable(u) == get_withdrawable(bl_balance, u)
Locked(u) == get_locked(bl_balance, u)

\* C4: in every reachable state, withdrawable(u) >= 0 and locked(u) >= 0 for
\* every user u.
C4_BalancesNonNegative ==
    \A u \in Users : Withdrawable(u) >= 0 /\ Locked(u) >= 0

\* C4 witness: after a settlement, with alice's withdrawable balance at zero, an
\* apply_delta that would take a bucket below zero has just been rejected.
C4_Witness ==
    /\ last.op = "apply_delta"
    /\ last.result = "InsufficientWithdrawable"
    /\ settled # {}
    /\ Withdrawable("alice") = 0
    /\ Locked("alice") = 1

\* The step is a successful settle_bet of the given type.
SettledAs(settlement_type) ==
    /\ last'.op = "settle_bet"
    /\ last'.result = "Ok"
    /\ last'.settlement_type = settlement_type

\* Every user other than those in `touched` keeps the stored balance.
OthersUnchanged(touched) ==
    \A u \in Users \ touched : bl_balance'[u] = bl_balance[u]

\* C7: a successful WIN settlement lowers locked(bettor) by bet_amount and raises
\* withdrawable(winner) by payout, whatever bet_amount and payout are; with bettor
\* and winner distinct, withdrawable(bettor) and locked(winner) are unchanged; no
\* other user's balance changes.
C7_WinMovesStakeAndPayout ==
    [][SettledAs(WIN) =>
        LET b == last'.bettor
            w == Unwrap(last'.winner)
        IN  /\ IsSome(last'.winner)
            /\ get_locked(bl_balance', b) = Locked(b) - last'.bet_amount
            /\ get_withdrawable(bl_balance', w) = Withdrawable(w) + last'.payout
            /\ b # w => /\ get_withdrawable(bl_balance', b) = Withdrawable(b)
                        /\ get_locked(bl_balance', w) = Locked(w)
            /\ OthersUnchanged({b, w})]_vars

\* C7 witness: a WIN with stake 1 and payout 2 from alice to bob has just
\* succeeded.
C7_Witness ==
    /\ last.op = "settle_bet" /\ last.result = "Ok" /\ last.settlement_type = WIN
    /\ last.bettor = "alice" /\ last.winner = Some("bob")
    /\ last.bet_amount = 1 /\ last.payout = 2
    /\ Locked("alice") = 1
    /\ Withdrawable("bob") = 2

\* The sum of every user's two buckets.
TotalFunds(store) ==
    LET RECURSIVE Sum(_)
        Sum(S) == IF S = {} THEN 0
                  ELSE LET u == CHOOSE x \in S : TRUE
                       IN  get_user_balance(store, u).withdrawable
                           + get_user_balance(store, u).locked + Sum(S \ {u})
    IN  Sum(Users)

\* C8: a successful LOSS settlement lowers locked(bettor) by bet_amount and
\* changes nothing else: withdrawable(bettor) and the balances of every other user
\* stay, so the sum of all balances drops by bet_amount.
C8_LossReleasesStakeOnly ==
    [][SettledAs(LOSS) =>
        LET b == last'.bettor
        IN  /\ get_locked(bl_balance', b) = Locked(b) - last'.bet_amount
            /\ get_withdrawable(bl_balance', b) = Withdrawable(b)
            /\ OthersUnchanged({b})
            /\ TotalFunds(bl_balance') = TotalFunds(bl_balance) - last'.bet_amount]_vars

\* C8 witness: a LOSS of stake 2 has just succeeded for alice, who keeps a
\* withdrawable balance, while bob holds funds.
C8_Witness ==
    /\ last.op = "settle_bet" /\ last.result = "Ok" /\ last.settlement_type = LOSS
    /\ last.bettor = "alice" /\ last.bet_amount = 2
    /\ Locked("alice") = 0
    /\ Withdrawable("bob") + Locked("bob") > 0

\* C9: a successful DRAW settlement moves bet_amount from locked(bettor) to
\* withdrawable(bettor) in one step: their sum is unchanged and no other user's
\* balance changes.
C9_DrawRefundsStake ==
    [][SettledAs(DRAW) =>
        LET b == last'.bettor
        IN  /\ get_locked(bl_balance', b) = Locked(b) - last'.bet_amount
            /\ get_withdrawable(bl_balance', b) = Withdrawable(b) + last'.bet_amount
            /\ get_withdrawable(bl_balance', b) + get_locked(bl_balance', b) = Withdrawable(b) + Locked(b)
            /\ OthersUnchanged({b})]_vars

\* C9 witness: a DRAW of stake 1 has just succeeded for alice, part of whose
\* escrow stays locked.
C9_Witness ==
    /\ last.op = "settle_bet" /\ last.result = "Ok" /\ last.settlement_type = DRAW
    /\ last.bettor = "alice" /\ last.bet_amount = 1
    /\ Withdrawable("alice") = 1
    /\ Locked("alice") = 1

\* C10: in every reachable state with the ledger configured, a settle_bet by the
\* authorized backend on an unsettled wager returns InvalidBet when the type is WIN
\* and no winner is given, and InvalidStatus when the type is none of WIN, LOSS,
\* DRAW; either way the call leaves every balance and the settled set as they were.
C10_InvalidBetAndInvalidStatus ==
    \A c \in SettleBetCalls :
        (/\ IsSome(st_ledger)
         /\ Authorized(c[1])
         /\ c[2] \notin settled
         /\ (c[7] = WIN /\ c[4] = None) \/ c[7] \notin {WIN, LOSS, DRAW}) =>
            \A r \in SettleBetRuns(c) :
                /\ r.result = (IF c[7] = WIN THEN "InvalidBet" ELSE "InvalidStatus")
                /\ r.store = bl_balance
                /\ r.settled = settled

\* C10 witness: with alice's escrow funded and nothing settled, a settle_bet has
\* just been rejected with InvalidStatus.
C10_Witness ==
    /\ last.op = "settle_bet"
    /\ last.result = "InvalidStatus"
    /\ settled = {}
    /\ Locked("alice") = I128_MAX

(***************************************************************************)
(* A WIN settlement whose second ledger call fails (SpecFunds)             *)
(***************************************************************************)
\* The call c of SettleBetCalls is a WIN by the authorized backend on an unsettled
\* wager, with the ledger configured, whose escrow release would succeed and whose
\* winner credit would then fail.
FirstDeltaOkSecondFails(c) ==
    /\ c[7] = WIN
    /\ IsSome(c[4])
    /\ IsSome(st_ledger)
    /\ Authorized(c[1])
    /\ c[2] \notin settled
    /\ LET r1 == bl_apply_delta(bl_backend, bl_balance, c[1], c[3], 0, -c[5])
       IN  /\ r1.res.ok
           /\ ~bl_apply_delta(bl_backend, r1.store, c[1], Unwrap(c[4]), c[6], 0).res.ok

\* The storage a settle_bet run r leaves behind.
StorageAfter(r) ==
    [Storage EXCEPT !.store = r.store, !.settled = r.settled, !.ops = r.ops]

\* C11: when the escrow release of a WIN settlement succeeds and the winner credit
\* fails, the settle fails, the wager is not marked settled and the idempotency
\* storage is as before: is_operation_executed gives what it gave before for every
\* hash, and a replay-guarded settle with a hash that had no record is not rejected
\* with DuplicateOperation.
C11_FailedWinConsumesNoGuard ==
    \A c \in SettleBetCalls :
        FirstDeltaOkSecondFails(c) =>
            \A r \in SettleBetRuns(c) :
                /\ r.result # "Ok"
                /\ c[2] \notin r.settled
                /\ r.settled = settled
                /\ r.ops = ops
                /\ \A h \in Hashes :
                     /\ is_operation_executed(r.ops, SETTLEMENT_SCOPE, h, now)
                          = is_operation_executed(ops, SETTLEMENT_SCOPE, h, now)
                     /\ ops[<<SETTLEMENT_SCOPE, h>>] = None =>
                          settle_bet_op(StorageAfter(r), c[1], h, c[2], Unwrap(c[4]),
                                        c[6], None, now).result # "DuplicateOperation"

\* C11 witness: a settle_bet has just trapped with alice's whole escrow still
\* locked and bob's withdrawable balance at the maximum, so the call was a WIN
\* for bob whose credit overflowed; nothing is settled and no hash is recorded.
C11_Witness ==
    /\ last.op = "settle_bet"
    /\ last.result = "HostError"
    /\ Locked("alice") = I128_MAX
    /\ Withdrawable("alice") = 0
    /\ Withdrawable("bob") = I128_MAX
    /\ settled = {}
    /\ \A h \in Hashes : ops[<<SETTLEMENT_SCOPE, h>>] = None

\* C12 as stated: when the escrow release of a WIN settlement succeeds and the
\* winner credit fails, the failed settle leaves locked(bettor) lower by bet_amount
\* and withdrawable(winner) unchanged.
C12_FirstDeltaPersists ==
    \A c \in SettleBetCalls :
        FirstDeltaOkSecondFails(c) =>
            \A r \in SettleBetRuns(c) :
                /\ get_locked(r.store, c[3]) = Locked(c[3]) - c[5]
                /\ get_withdrawable(r.store, Unwrap(c[4])) = Withdrawable(Unwrap(c[4]))

\* C12 amended: when the escrow release of a WIN settlement succeeds and the winner
\* credit fails, the failed settle leaves every balance as it was: locked(bettor)
\* keeps the stake and withdrawable(winner) is unchanged, because the trap of the
\* second invoke_contract reverts the first call's write with the transaction.
C12_FailedWinRollsBackFirstDelta ==
    \A c \in SettleBetCalls :
        FirstDeltaOkSecondFails(c) =>
            \A r \in SettleBetRuns(c) :
                /\ r.result = "HostError"
                /\ r.store = bl_balance
                /\ get_locked(r.store, c[3]) = Locked(c[3])
                /\ get_withdrawable(r.store, Unwrap(c[4])) = Withdrawable(Unwrap(c[4]))

\* C12 witness: a settle_bet has just trapped while part of alice's escrow covers
\* the stake and bob's withdrawable balance is at the maximum, after an earlier
\* settlement went through.
C12_Witness ==
    /\ last.op = "settle_bet"
    /\ last.result = "HostError"
    /\ Locked("alice") = I128_MAX
    /\ Withdrawable("bob") = I128_MAX
    /\ settled # {}

(***************************************************************************)
(* Properties of the ledger's entry points (SpecFunds)                     *)
(***************************************************************************)
\* The step is a successful call of the ledger entry point op.
LedgerOk(op) == last'.op = op /\ last'.result = "Ok"

\* lock_funds(u, a) from the current state succeeds, and unlock_funds(u, a) right
\* after it succeeds and gives back the (withdrawable, locked) pair of before.
LockUnlockRestores(c) ==
    LET r1 == bl_lock_funds(bl_backend, bl_balance, c[1], c[2], c[3])
        r2 == bl_unlock_funds(bl_backend, r1.store, c[1], c[2], c[3])
    IN  r1.res.ok =>
            /\ r2.res.ok
            /\ get_user_balance(r2.store, c[2]) = get_user_balance(bl_balance, c[2])
            /\ \A u \in Users \ {c[2]} : r2.store[u] = bl_balance[u]

\* A successful lock_funds(u, a) step takes a from withdrawable(u) and adds it to
\* locked(u); their sum and every other user are unchanged.
LockStepMovesAmount ==
    LedgerOk("lock_funds") =>
        LET u == last'.user
            a == last'.amount
        IN  /\ get_withdrawable(bl_balance', u) = Withdrawable(u) - a
            /\ get_locked(bl_balance', u) = Locked(u) + a
            /\ get_withdrawable(bl_balance', u) + get_locked(bl_balance', u)
                 = Withdrawable(u) + Locked(u)
            /\ OthersUnchanged({u})

\* A successful unlock_funds(u, a) step takes a from locked(u) and adds it to
\* withdrawable(u); their sum and every other user are unchanged.
UnlockStepMovesAmount ==
    LedgerOk("unlock_funds") =>
        LET u == last'.user
            a == last'.amount
        IN  /\ get_withdrawable(bl_balance', u) = Withdrawable(u) + a
            /\ get_locked(bl_balance', u) = Locked(u) - a
            /\ get_withdrawable(bl_balance', u) + get_locked(bl_balance', u)
                 = Withdrawable(u) + Locked(u)
            /\ OthersUnchanged({u})

\* C13: every successful lock_funds(u, a) takes a from withdrawable(u) and adds it
\* to locked(u) in one step, every successful unlock_funds(u, a) does the reverse,
\* both leave withdrawable(u) + locked(u) and every other user unchanged; and in
\* every state a lock(u, a) that succeeds, followed by unlock(u, a), restores the
\* exact (withdrawable, locked) pair.
C13_LockUnlockConserve ==
    /\ [](\A c \in LockCalls : LockUnlockRestores(c))
    /\ [][LockStepMovesAmount /\ UnlockStepMovesAmount]_vars

\* C13 witness: unlock_funds(alice, 1) has just succeeded and left funds in both
\* of alice's buckets, while bob holds a balance.
C13_Witness ==
    /\ last.op = "unlock_funds" /\ last.result = "Ok"
    /\ last.user = "alice" /\ last.amount = 1
    /\ Withdrawable("alice") = 1
    /\ Locked("alice") = I128_MAX - 1
    /\ Withdrawable("bob") + Locked("bob") > 0

\* The ledger's signer is set and has authorized the call.
LedgerAuthorized(auths) == require_backend_auth(bl_backend, auths) = "Ok"

\* lock_funds and unlock_funds called with c = <<auths, user, amount>> in the
\* current state.
LockOf(c) == bl_lock_funds(bl_backend, bl_balance, c[1], c[2], c[3])
UnlockOf(c) == bl_unlock_funds(bl_backend, bl_balance, c[1], c[2], c[3])

\* A call that fails with the error err and leaves the balance storage as it was.
FailsWith(r, err) == ~r.res.ok /\ r.res.err = err /\ r.store = bl_balance

\* The rejections of lock_funds and unlock_funds by the authorized backend:
\* InvalidAmount for amount <= 0, InsufficientWithdrawable / InsufficientLocked
\* for a bucket smaller than amount, and no write by any failing call.
LockUnlockRejections(c) ==
    LET w == Withdrawable(c[2])
        l == Locked(c[2])
        a == c[3]
    IN  /\ a <= 0 => FailsWith(LockOf(c), "InvalidAmount")
                     /\ FailsWith(UnlockOf(c), "InvalidAmount")
        /\ (a > 0 /\ w < a) => FailsWith(LockOf(c), "InsufficientWithdrawable")
        /\ (a > 0 /\ l < a) => FailsWith(UnlockOf(c), "InsufficientLocked")
        /\ ~LockOf(c).res.ok => LockOf(c).store = bl_balance
        /\ ~UnlockOf(c).res.ok => UnlockOf(c).store = bl_balance

\* C14 as stated: the rejections above, and lock_funds / unlock_funds succeed
\* whenever amount > 0 equals the whole bucket they take from.
C14_WholeBucketAlwaysSucceeds ==
    \A c \in LockCalls :
        LedgerAuthorized(c[1]) =>
            /\ LockUnlockRejections(c)
            /\ (c[3] > 0 /\ c[3] = Withdrawable(c[2])) => LockOf(c).res.ok
            /\ (c[3] > 0 /\ c[3] = Locked(c[2])) => UnlockOf(c).res.ok

\* C14 amended: the rejections above; with amount > 0 equal to the whole bucket,
\* lock_funds succeeds when locked + amount fits in an i128 and fails with Overflow
\* otherwise, and unlock_funds succeeds when withdrawable + amount fits and fails
\* with Overflow otherwise; every failing call leaves the balance unchanged.
C14_LockUnlockErrors ==
    \A c \in LockCalls :
        LedgerAuthorized(c[1]) =>
            /\ LockUnlockRejections(c)
            /\ (c[3] > 0 /\ c[3] = Withdrawable(c[2])) =>
                  IF Locked(c[2]) + c[3] <= I128_MAX
                  THEN /\ LockOf(c).res.ok
                       /\ LockOf(c).res.val = UserBalance(0, Locked(c[2]) + c[3])
                  ELSE FailsWith(LockOf(c), "Overflow")
            /\ (c[3] > 0 /\ c[3] = Locked(c[2])) =>
                  IF Withdrawable(c[2]) + c[3] <= I128_MAX
                  THEN /\ UnlockOf(c).res.ok
                       /\ UnlockOf(c).res.val = UserBalance(Withdrawable(c[2]) + c[3], 0)
                  ELSE FailsWith(UnlockOf(c), "Overflow")

\* C14 witness: lock_funds has just moved alice's whole withdrawable balance,
\* I128_MAX, into escrow.
C14_Witness ==
    /\ last.op = "lock_funds" /\ last.result = "Ok"
    /\ last.user = "alice" /\ last.amount = I128_MAX
    /\ Withdrawable("alice") = 0
    /\ Locked("alice") = I128_MAX

\* apply_delta called with c = <<auths, user, withdrawable_delta, locked_delta>>
\* in the current state.
ApplyDeltaOf(c) == bl_apply_delta(bl_backend, bl_balance, c[1], c[2], c[3], c[4])

\* C15: in every reachable state apply_delta(u, dw, dl) by the authorized backend
\* either stores (withdrawable + dw, locked + dl) for u and returns it, changing no
\* other user, or fails and leaves the balance storage unchanged: with Overflow
\* if either sum leaves the i128 range, else with InsufficientWithdrawable if
\* withdrawable + dw < 0, else with InsufficientLocked if locked + dl < 0.
C15_ApplyDeltaAllOrNothing ==
    \A c \in ApplyDeltaCalls :
        LedgerAuthorized(c[1]) =>
            LET w == Withdrawable(c[2]) + c[3]
                l == Locked(c[2]) + c[4]
                r == ApplyDeltaOf(c)
            IN  IF w \notin I128 \/ l \notin I128 THEN FailsWith(r, "Overflow")
                ELSE IF w < 0 THEN FailsWith(r, "InsufficientWithdrawable")
                ELSE IF l < 0 THEN FailsWith(r, "InsufficientLocked")
                ELSE /\ r.res = Ok(UserBalance(w, l))
                     /\ r.store[c[2]] = Some(UserBalance(w, l))
                     /\ \A u \in Users \ {c[2]} : r.store[u] = bl_balance[u]

\* C15 witness: an apply_delta has just failed with Overflow while alice holds the
\* maximum in her withdrawable bucket and funds in escrow.
C15_Witness ==
    /\ last.op = "apply_delta"
    /\ last.result = "Overflow"
    /\ Withdrawable("alice") = I128_MAX
    /\ Locked("alice") = 1

\* set_balance called with c = <<auths, user, withdrawable, locked>> in the
\* current state.
SetBalanceOf(c) == bl_set_balance(bl_backend, bl_balance, c[1], c[2], c[3], c[4])

\* C16: in every reachable state, whatever the user's balance is, set_balance(u, w,
\* l) by the authorized backend with w >= 0 and l >= 0 stores exactly (w, l) for u,
\* returns it and changes no other user; with w < 0 or l < 0 it fails with
\* InvalidAmount and the balance storage is unchanged.
C16_SetBalanceOverwrites ==
    \A c \in SetBalanceCalls :
        LedgerAuthorized(c[1]) =>
            LET r == SetBalanceOf(c)
            IN  IF c[3] >= 0 /\ c[4] >= 0
                THEN /\ r.res = Ok(UserBalance(c[3], c[4]))
                     /\ get_user_balance(r.store, c[2]) = UserBalance(c[3], c[4])
                     /\ \A u \in Users \ {c[2]} : r.store[u] = bl_balance[u]
                ELSE FailsWith(r, "InvalidAmount")

\* C16 witness: a set_balance has just been rejected with InvalidAmount while alice
\* and bob hold balances written by earlier calls.
C16_Witness ==
    /\ last.op = "set_balance"
    /\ last.result = "InvalidAmount"
    /\ get_user_balance(bl_balance, "alice") = UserBalance(I128_MAX, 0)
    /\ get_user_balance(bl_balance, "bob") = UserBalance(0, I128_MAX)

\* C17 as stated: in every reachable state withdrawable(u) + locked(u) is at most
\* the i128 maximum, for every user u.
C17_TotalNeverOverflows ==
    \A u \in Users : Withdrawable(u) + Locked(u) <= I128_MAX

\* C17 amended: in every reachable state each bucket of every user is in
\* 0..I128_MAX on its own, and the sum of the two is not guarded by the writes:
\* set_balance by the authorized backend succeeds for every pair of non-negative
\* amounts, also when their sum exceeds the maximum, and apply_delta succeeds
\* whenever each resulting bucket is in 0..I128_MAX.
C17_BucketsInRangeSumUnchecked ==
    /\ \A u \in Users : Withdrawable(u) \in 0..I128_MAX /\ Locked(u) \in 0..I128_MAX
    /\ \A c \in SetBalanceCalls :
          (LedgerAuthorized(c[1]) /\ c[3] >= 0 /\ c[4] >= 0) => SetBalanceOf(c).res.ok
    /\ \A c \in ApplyDeltaCalls :
          (/\ LedgerAuthorized(c[1])
           /\ Withdrawable(c[2]) + c[3] \in 0..I128_MAX
           /\ Locked(c[2]) + c[4] \in 0..I128_MAX) => ApplyDeltaOf(c).res.ok

\* C17 witness: apply_delta(alice, 0, 1) has just succeeded on a withdrawable
\* balance at the maximum, so alice's stored sum is past the maximum.
C17_Witness ==
    /\ last.op = "apply_delta" /\ last.result = "Ok"
    /\ last.user = "alice" /\ last.withdrawable_delta = 0 /\ last.locked_delta = 1
    /\ Withdrawable("alice") = I128_MAX
    /\ Locked("alice") = 1
    /\ Withdrawable("alice") + Locked("alice") > I128_MAX

\* C18: get_total(u) returns withdrawable(u) + locked(u) when the sum is at most
\* the i128 maximum and fails with Overflow otherwise; the value it returns is
\* never a wrapped one, and the call changes no storage.
C18_GetTotalChecked ==
    [][last'.op = "get_total" =>
        LET u == last'.user
            sum == Withdrawable(u) + Locked(u)
        IN  /\ IF sum <= I128_MAX
               THEN last'.result = "Ok" /\ last'.total = sum
               ELSE last'.result = "Overflow"
            /\ UNCHANGED <<now, ops, bl_backend, bl_balance, bl_metrics, st_backend,
                           st_ledger, settled>>]_vars

\* C18 witness: get_total(alice) has just failed with Overflow on the balance
\* (I128_MAX, 1).
C18_Witness ==
    /\ last.op = "get_total"
    /\ last.result = "Overflow"
    /\ last.user = "alice"
    /\ get_user_balance(bl_balance, "alice") = UserBalance(I128_MAX, 1)

(***************************************************************************)
(* Properties of the ledger's metrics (SpecMetrics)                        *)
(***************************************************************************)
Metrics(u) == get_user_metrics(bl_metrics, u)

\* record_metrics called with c = <<auths, user, staked_delta, won_delta,
\* lost_delta>> in the current state.
RecordMetricsOf(c) ==
    bl_record_metrics(bl_backend, bl_metrics, c[1], c[2], c[3], c[4], c[5])

\* C19: in every reachable state, record_metrics by the authorized backend with
\* three non-negative deltas, one of which would take its counter past the i128
\* maximum, fails with Overflow and leaves the metrics storage unchanged, so all
\* three counters stay, also when the other two deltas are valid and non-zero.
C19_MetricsOverflowChangesNothing ==
    \A c \in RecordMetricsCalls :
        (/\ LedgerAuthorized(c[1])
         /\ c[3] >= 0 /\ c[4] >= 0 /\ c[5] >= 0
         /\ \/ Metrics(c[2]).total_staked + c[3] > I128_MAX
            \/ Metrics(c[2]).total_won + c[4] > I128_MAX
            \/ Metrics(c[2]).total_lost + c[5] > I128_MAX) =>
            LET r == RecordMetricsOf(c)
            IN  /\ ~r.res.ok
                /\ r.res.err = "Overflow"
                /\ r.store = bl_metrics
                /\ get_user_metrics(r.store, c[2]) = Metrics(c[2])

\* C19 witness: a record_metrics has just failed with Overflow while alice's three
\* counters are 1, 0 and I128_MAX: every call with a positive lost delta for
\* alice overflows the last counter only.
C19_Witness ==
    /\ last.op = "record_metrics"
    /\ last.result = "Overflow"
    /\ Metrics("alice") = UserMetrics(1, 0, I128_MAX)
    /\ Metrics("bob") = UserMetrics(0, 0, 0)

\* The outcome of record_metrics in the current state: InvalidAmount and no write
\* for a negative delta, else each delta added to its counter unless one overflows.
RecordMetricsAdds(c) ==
    LET r == RecordMetricsOf(c)
        m == Metrics(c[2])
    IN  IF c[3] < 0 \/ c[4] < 0 \/ c[5] < 0
        THEN ~r.res.ok /\ r.res.err = "InvalidAmount" /\ r.store = bl_metrics
        ELSE IF /\ m.total_staked + c[3] <= I128_MAX
                /\ m.total_won + c[4] <= I128_MAX
                /\ m.total_lost + c[5] <= I128_MAX
        THEN /\ r.res = Ok(UserMetrics(m.total_staked + c[3], m.total_won + c[4],
                                       m.total_lost + c[5]))
             /\ get_user_metrics(r.store, c[2]) = r.res.val
             /\ \A u \in Users \ {c[2]} : r.store[u] = bl_metrics[u]
        ELSE ~r.res.ok

\* C20: record_metrics by the authorized backend fails with InvalidAmount and
\* writes nothing if any delta is negative, and otherwise adds each delta to its
\* counter; in every reachable state the three counters of every user are
\* non-negative, and no step lowers any of them.
C20_MetricsMonotonic ==
    /\ [](/\ \A c \in RecordMetricsCalls : LedgerAuthorized(c[1]) => RecordMetricsAdds(c)
          /\ \A u \in Users : /\ Metrics(u).total_staked >= 0
                              /\ Metrics(u).total_won >= 0
                              /\ Metrics(u).total_lost >= 0)
    /\ [][\A u \in Users :
            /\ get_user_metrics(bl_metrics', u).total_staked >= Metrics(u).total_staked
            /\ get_user_metrics(bl_metrics', u).total_won >= Metrics(u).total_won
            /\ get_user_metrics(bl_metrics', u).total_lost >= Metrics(u).total_lost]_vars

\* C20 witness: a record_metrics has just been rejected with InvalidAmount after
\* earlier calls raised counters of both users.
C20_Witness ==
    /\ last.op = "record_metrics"
    /\ last.result = "InvalidAmount"
    /\ Metrics("alice") = UserMetrics(1, 1, 0)
    /\ Metrics("bob") = UserMetrics(0, 1, 1)

(***************************************************************************)
(* Initialization and authorization of the ledger (SpecFunds)              *)
(***************************************************************************)
\* C21: the ledger's backend signer is set exactly once: an initialize on a ledger
\* with no signer stores the given one and returns Ok, an initialize on a ledger
\* that has a signer fails with AlreadyInitialized whichever identity it carries,
\* and no step of any operation changes a stored signer.
C21_BackendSetOnce ==
    [][/\ IsSome(bl_backend) => bl_backend' = bl_backend
       /\ last'.op = "bl_initialize" =>
            IF bl_backend = None
            THEN /\ last'.result = "Ok"
                 /\ bl_backend' = Some(last'.signer)
            ELSE /\ last'.result = "AlreadyInitialized"
                 /\ bl_backend' = bl_backend
       /\ bl_backend' # bl_backend => last'.op = "bl_initialize"]_vars

\* C21 witness: an initialize has just failed with AlreadyInitialized on a ledger
\* whose signer has already written balances.
C21_Witness ==
    /\ last.op = "bl_initialize"
    /\ last.result = "AlreadyInitialized"
    /\ bl_backend = Some(BACKEND)
    /\ Withdrawable("alice") = I128_MAX

\* The call does not carry the authorization of the configured signer: no
\* signer is stored, or the stored one is somebody else.
Unbacked(backend, auths) == backend = None \/ Unwrap(backend) \notin auths

\* A ledger call that fails and leaves the storage it writes, now `store`, alone.
Refused(r, store) == ~r.res.ok /\ r.store = store

\* C22: in every reachable state, a set_balance, apply_delta, lock_funds,
\* unlock_funds or record_metrics made without the authorization of the ledger's
\* configured signer (or before a signer is configured) fails and writes nothing;
\* a settle_bet of either kind made without the authorization of the settlement
\* contract's configured signer fails and changes no balance, settled flag or
\* operation record; and a settle_bet that lacks the authorization of the
\* ledger's signer changes no balance.
C22_UnauthorizedHasNoEffect ==
    /\ \A c \in SetBalanceCalls :
          Unbacked(bl_backend, c[1]) => Refused(SetBalanceOf(c), bl_balance)
    /\ \A c \in ApplyDeltaCalls :
          Unbacked(bl_backend, c[1]) => Refused(ApplyDeltaOf(c), bl_balance)
    /\ \A c \in LockCalls :
          Unbacked(bl_backend, c[1]) =>
              Refused(LockOf(c), bl_balance) /\ Refused(UnlockOf(c), bl_balance)
    /\ \A c \in RecordMetricsCalls :
          Unbacked(bl_backend, c[1]) => Refused(RecordMetricsOf(c), bl_metrics)
    /\ \A c \in SettleBetCalls :
          \A r \in SettleBetRuns(c) :
              /\ Unbacked(st_backend, c[1]) =>
                    /\ r.result # "Ok"
                    /\ r.store = bl_balance /\ r.settled = settled /\ r.ops = ops
              /\ Unbacked(bl_backend, c[1]) => r.store = bl_balance
    /\ \A c \in SettleBetOpCalls :
          Unbacked(st_backend, c[1]) =>
              LET r == settle_bet_op(Storage, c[1], c[2], c[3], c[4], c[5], c[6], now)
              IN  /\ r.result # "Ok"
                  /\ r.store = bl_balance /\ r.settled = settled /\ r.ops = ops

\* C22 witness: a stranger's set_balance has just trapped in require_auth on a
\* ledger whose signer is the backend and which holds balances, with a wager
\* marked settled.
C22_Witness ==
    /\ last.op = "set_balance"
    /\ last.result = "HostError"
    /\ bl_backend = Some(BACKEND)
    /\ st_backend = Some(BACKEND)
    /\ Locked("alice") = 1
    /\ settled # {}

(***************************************************************************)
(* Queries, cleanup and expiry of the idempotency engine (SpecIdem)        *)
(***************************************************************************)
\* The key k holds a record and the record is live at the current time.
HasLive(k) == IsSome(ops[k]) /\ Live(Unwrap(ops[k]), now)

\* The key k holds a record and the record is expired at the current time.
HasExpired(k) == IsSome(ops[k]) /\ ~Live(Unwrap(ops[k]), now)

\* C23: is_operation_executed(scope, h) returns true exactly when (scope, h) has a
\* record that is live (no TTL, or now - executed_at < ttl_seconds), so false for
\* a key never guarded and for an expired record still in storage; the call
\* changes no state.
C23_IsExecutedIffLive ==
    [][last'.op = "is_operation_executed" =>
        /\ last'.result = BoolName(HasLive(KeyOf(last')))
        /\ UNCHANGED <<now, ops, bl_backend, bl_balance, bl_metrics, st_backend,
                       st_ledger, settled>>]_vars

\* C23 witness: is_operation_executed has just returned false for settlement/h1,
\* whose record of TTL 1 written at time 0 is still stored at time 1.
C23_Witness ==
    /\ last.op = "is_operation_executed"
    /\ last.result = "false"
    /\ KeyOf(last) = <<SETTLEMENT_SCOPE, "h1">>
    /\ ops[<<SETTLEMENT_SCOPE, "h1">>] = Some(ExecutionRecord(0, Some(1)))
    /\ now = 1

\* C24: cleanup_operation(scope, h) returns true and deletes the record when the
\* key has an expired record, touching no other key; when the key has no record or
\* a live one it returns false and changes no state, so a live record is still
\* there, and still live, after the call.
C24_CleanupOnlyExpired ==
    [][last'.op = "cleanup_operation" =>
        LET k == KeyOf(last')
        IN  /\ IF HasExpired(k)
               THEN /\ last'.result = "true"
                    /\ ops' = [ops EXCEPT ![k] = None]
               ELSE /\ last'.result = "false"
                    /\ ops' = ops
            /\ HasLive(k) => ops'[k] = ops[k] /\ Live(Unwrap(ops'[k]), now')
            /\ HasLive(k) => ensure_not_replayed(ops', k[1], k[2], None, now').result
                              = "DuplicateOperation"
            /\ UNCHANGED <<now, bl_backend, bl_balance, bl_metrics, st_backend,
                           st_ledger, settled>>]_vars

\* C24 witness: cleanup_operation has just returned false for spin_exec/h1, whose
\* record of TTL 2 written at time 1 is live at time 2, while settlement/h1 holds
\* an expired record.
C24_Witness ==
    /\ last.op = "cleanup_operation"
    /\ last.result = "false"
    /\ KeyOf(last) = <<SPIN_SCOPE, "h1">>
    /\ ops[<<SPIN_SCOPE, "h1">>] = Some(ExecutionRecord(1, Some(2)))
    /\ ops[<<SETTLEMENT_SCOPE, "h1">>] = Some(ExecutionRecord(0, Some(1)))
    /\ now = 2

\* What the three entry points answer for key k at time t on the current storage:
\* the guard is rejected, the query says executed, cleanup declines.
Blocks(k, t) ==
    /\ ensure_not_replayed(ops, k[1], k[2], None, t).result = "DuplicateOperation"
    /\ is_operation_executed(ops, k[1], k[2], t)
    /\ ~cleanup_operation(ops, k[1], k[2], t).result

\* The key k holds a record written without a TTL.
Untimed(k) == IsSome(ops[k]) /\ Unwrap(ops[k]).ttl_seconds = None

\* C25: a record written by the guard with no TTL is permanent: no step removes or
\* rewrites it, and at the current and every later clock value the guard on its
\* key fails with DuplicateOperation, is_operation_executed returns true and
\* cleanup_operation returns false.
C25_UntimedRecordPermanent ==
    /\ [](\A k \in OpKeys : Untimed(k) => \A t \in now..MaxTime : Blocks(k, t))
    /\ [][\A k \in OpKeys : Untimed(k) => ops'[k] = ops[k]]_vars

\* C25 witness: at the last clock value a guard on settlement/h1 has just been
\* rejected; its record was written at time 0 with no TTL.
C25_Witness ==
    /\ last.op = "ensure_not_replayed"
    /\ last.result = "DuplicateOperation"
    /\ KeyOf(last) = <<SETTLEMENT_SCOPE, "h1">>
    /\ ops[<<SETTLEMENT_SCOPE, "h1">>] = Some(ExecutionRecord(0, None))
    /\ now = MaxTime

\* The key k holds a record written with a TTL.
Timed(k) == IsSome(ops[k]) /\ IsSome(Unwrap(ops[k]).ttl_seconds)

\* C26 as stated: for every record with a TTL and every clock value t <=
\* executed_at, is_operation_executed returns true, cleanup_operation returns
\* false and the guard fails with DuplicateOperation.
C26_NoExpiryBeforeClockAdvances ==
    \A k \in OpKeys :
        Timed(k) => \A t \in 0..Unwrap(ops[k]).executed_at : Blocks(k, t)

\* C26 amended: for every record with a TTL greater than zero and every clock
\* value t <= executed_at, is_operation_executed returns true, cleanup_operation
\* returns false and the guard fails with DuplicateOperation; a record with TTL
\* zero is expired at every clock value, t <= executed_at included.
C26_NoExpiryBeforeClockAdvancesPositiveTtl ==
    \A k \in OpKeys :
        Timed(k) =>
            \A t \in 0..Unwrap(ops[k]).executed_at :
                IF Unwrap(Unwrap(ops[k]).ttl_seconds) > 0
                THEN Blocks(k, t)
                ELSE /\ is_expired(t, Unwrap(ops[k]))
                     /\ ~is_operation_executed(ops, k[1], k[2], t)

\* C26 witness: settlement/h1 holds a record of TTL 1 written at time 2, so the
\* clock values 0 and 1 lie before executed_at, and a guard on it has just been
\* rejected at time 2.
C26_Witness ==
    /\ last.op = "ensure_not_replayed"
    /\ last.result = "DuplicateOperation"
    /\ KeyOf(last) = <<SETTLEMENT_SCOPE, "h1">>
    /\ ops[<<SETTLEMENT_SCOPE, "h1">>] = Some(ExecutionRecord(2, Some(1)))
    /\ now = 2

\* The call recorded is a guard that succeeded with TTL zero.
JustGuardedZero(call) ==
    /\ call.op = "ensure_not_replayed"
    /\ call.result = "Ok"
    /\ call.ttl = Some(0)

\* Right after a successful guard with TTL zero, at the same clock value, the
\* query on its key says not executed and a guard with any TTL would succeed.
ZeroTtlRecordIsDead ==
    JustGuardedZero(last) =>
        /\ ops[KeyOf(last)] = Some(ExecutionRecord(now, Some(0)))
        /\ ~is_operation_executed(ops, last.scope, last.hash, now)
        /\ \A ttl \in Ttls :
             ensure_not_replayed(ops, last.scope, last.hash, ttl, now).result = "Ok"

\* C27: a guard with TTL zero blocks nothing: in every state right after a
\* successful guard(scope, h, Some(0)), at the same clock value,
\* is_operation_executed(scope, h) is false and a guard on (scope, h) with any TTL
\* succeeds; and a guard step on that key taken from such a state returns Ok.
C27_ZeroTtlBlocksNothing ==
    /\ []ZeroTtlRecordIsDead
    /\ [][(/\ JustGuardedZero(last)
           /\ last'.op = "ensure_not_replayed"
           /\ KeyOf(last') = KeyOf(last)) => last'.result = "Ok"]_vars

\* C27 witness: two guards with TTL zero on settlement/h1 have succeeded at clock
\* value 1: the record is stamped 1 and the last call is a successful guard, after
\* an earlier record on the key was overwritten.
C27_Witness ==
    /\ last.op = "ensure_not_replayed"
    /\ last.result = "Ok"
    /\ last.ttl = Some(0)
    /\ KeyOf(last) = <<SETTLEMENT_SCOPE, "h1">>
    /\ ops[<<SETTLEMENT_SCOPE, "h1">>] = Some(ExecutionRecord(1, Some(0)))
    /\ now = 1

(***************************************************************************)
(* The settled flag and the replay guard of settle_bet (Spec)              *)
(***************************************************************************)
\* C28 as claimed: per wager the only transition is Unsettled -> Settled, made by
\* the settle call that succeeds for it.  A wager for which is_settled is true
\* keeps it true under every step, with its stored entry unchanged; the settled
\* set changes only in a settle call that returns Ok, by gaining that call's wager;
\* a fund-moving settle_bet that returns Ok leaves its wager settled; and the entry
\* written when a wager becomes settled is its settlement record, made at the
\* time of the call.
C28_SettleWritesTerminalRecord ==
    [][/\ \A b \in Bets :
            is_settled(settled, b) =>
                /\ is_settled(settled', b)
                /\ settled_entry(settled', b) = settled_entry(settled, b)
       /\ settled' # settled =>
            /\ last'.op \in SettleOps
            /\ last'.result = "Ok"
            /\ settled' = settled \cup {last'.bet_id}
       /\ (last'.op = "settle_bet" /\ last'.result = "Ok") =>
            is_settled(settled', last'.bet_id)
       /\ \A b \in Bets :
            (~is_settled(settled, b) /\ is_settled(settled', b)) =>
                /\ Unwrap(settled_entry(settled', b)).kind = "SettlementRecord"
                /\ Unwrap(settled_entry(settled', b)).bet_id = b
                /\ Unwrap(settled_entry(settled', b)).timestamp = now']_vars

\* C29: in every reachable state, a replay-guarded settle_bet by the authorized
\* backend whose operation_hash has a live record fails with DuplicateOperation,
\* whatever its wager: the settled set (so that wager's flag), the balances and the
\* operation records are unchanged; one whose operation_hash has no live record
\* succeeds whatever else is recorded or settled, marking its wager settled and
\* recording its hash, with no balance changed.
C29_LiveHashBlocksOtherWager ==
    \A c \in SettleBetOpCalls :
        Authorized(c[1]) =>
            LET k == <<SETTLEMENT_SCOPE, c[2]>>
                r == settle_bet_op(Storage, c[1], c[2], c[3], c[4], c[5], c[6], now)
            IN  IF HasLive(k)
                THEN /\ r.result = "DuplicateOperation"
                     /\ r.settled = settled
                     /\ r.store = bl_balance
                     /\ r.ops = ops
                ELSE /\ r.result = "Ok"
                     /\ r.settled = settled \cup {c[3]}
                     /\ r.store = bl_balance
                     /\ r.ops = [ops EXCEPT ![k] = Some(ExecutionRecord(now, c[6]))]

\* C29 witness: a replay-guarded settle_bet has just been rejected with
\* DuplicateOperation while h1 is the only hash recorded and bet1 the only wager
\* settled; bet2 stays unsettled.
C29_Witness ==
    /\ last.op = "settle_bet_op"
    /\ last.result = "DuplicateOperation"
    /\ settled = {"bet1"}
    /\ ~is_settled(settled, "bet2")
    /\ IsSome(ops[<<SETTLEMENT_SCOPE, "h1">>])
    /\ ops[<<SETTLEMENT_SCOPE, "h2">>] = None

LedgerSetBalanceCalls == {BY_BACKEND} \X Users \X {<<I128_MAX, 0>>, <<0, 1>>}
LedgerApplyDeltaCalls == {BY_BACKEND} \X Users \X {<<1, 0>>, <<-1, 0>>, <<0, 1>>, <<0, -1>>}
LedgerLockCalls == {BY_BACKEND} \X Users \X {1}
LedgerRecordMetricsCalls == {BY_BACKEND} \X Users \X {<<1, 1, 1>>}

NextLedger ==
    \/ BL_Initialize(BACKEND)
    \/ \E c \in LedgerSetBalanceCalls : SetBalance(c[1], c[2], c[3][1], c[3][2])
    \/ \E c \in LedgerApplyDeltaCalls : ApplyDelta(c[1], c[2], c[3][1], c[3][2])
    \/ \E c \in LedgerLockCalls : LockFunds(c[1], c[2], c[3])
    \/ \E c \in LedgerLockCalls : UnlockFunds(c[1], c[2], c[3])
    \/ \E c \in LedgerRecordMetricsCalls :
          RecordMetrics(c[1], c[2], c[3][1], c[3][2], c[3][3])

SpecLedger == Init /\ [][NextLedger]_vars

BalanceMutators == {"set_balance", "apply_delta", "lock_funds", "unlock_funds"}

\* A stored balance or a stored metrics entry changes only for the user of a
\* successful mutation of that kind.
OnlyTheCallsUserChanges ==
    /\ \A u \in Users :
         bl_balance'[u] # bl_balance[u] =>
             /\ last'.op \in BalanceMutators
             /\ last'.result = "Ok"
             /\ last'.user = u
             /\ bl_metrics' = bl_metrics
    /\ \A u \in Users :
         bl_metrics'[u] # bl_metrics[u] =>
             /\ last'.op = "record_metrics"
             /\ last'.result = "Ok"
             /\ last'.user = u
             /\ bl_balance' = bl_balance

\* A user with no stored balance reads as (0, 0) with total 0, and a user with no
\* stored metrics reads as (0, 0, 0).
UntouchedReadsZero ==
    \A u \in Users :
        /\ bl_balance[u] = None =>
             /\ get_withdrawable(bl_balance, u) = 0
             /\ get_locked(bl_balance, u) = 0
             /\ get_total(bl_balance, u) = Ok(0)
        /\ bl_metrics[u] = None => get_metrics(bl_metrics, u) = UserMetrics(0, 0, 0)

\* C31: every step that changes the stored balance of a user is a successful
\* set_balance, apply_delta, lock_funds or unlock_funds on that user, and every
\* step that changes the stored metrics of a user is a successful record_metrics
\* on that user, so a mutation on u leaves the balance and metrics of every other
\* user unchanged; a user no mutation has written reads as balance (0, 0), total 0
\* and metrics (0, 0, 0).
C31_UsersIsolated ==
    /\ []UntouchedReadsZero
    /\ [][OnlyTheCallsUserChanges]_vars

\* C31 witness: alice's balance and metrics have been written, the last of the
\* writes a lock_funds, and bob has never been written: he reads as zero.
C31_Witness ==
    /\ last.op = "lock_funds" /\ last.result = "Ok" /\ last.user = "alice"
    /\ get_user_balance(bl_balance, "alice") = UserBalance(I128_MAX - 1, 1)
    /\ Metrics("alice") = UserMetrics(1, 1, 1)
    /\ bl_balance["bob"] = None
    /\ bl_metrics["bob"] = None
    /\ get_total(bl_balance, "bob") = Ok(0)


(***************************************************************************)
(* Spin execution (SpecSpin)                                               *)
(***************************************************************************)
\* Calls of execute_spin_with_ttl: <<auths, spin_id, spin_hash, executor,
\* ttl_seconds>>, with both authorizations, and with one of the two missing.
SpinTtls == {None, Some(1)}
ExecuteSpinCalls ==
    ({{BACKEND, "alice"}} \X SpinIds \X Hashes \X {"alice"} \X SpinTtls)
    \cup {<<{"alice"}, "spin1", "h1", "alice", None>>,
          <<BY_BACKEND, "spin1", "h1", "alice", None>>}

NextSpin ==
    \/ Tick
    \/ BT_Initialize(BACKEND)
    \/ \E c \in ExecuteSpinCalls : ExecuteSpinWithTtl(c[1], c[2], c[3], c[4], c[5])
    \/ \E i \in SpinIds : ExecuteSpin({BACKEND, "alice"}, i, "h2", "alice")
    \/ \E i \in SpinIds : IsSpinExecuted(i)
    \/ \E h \in Hashes : BT_CleanupSpinHash(h)
    \/ \E h \in Hashes : BT_IsSpinHashUsed(h)

SpecSpin == Init /\ [][NextSpin]_vars

\* The call carries the authorization of its executor and of the stored signer.
SpinAuthorized(c) == IsSome(bt_backend) /\ {c[4], Unwrap(bt_backend)} \subseteq c[1]

\* C32: in every reachable state, an execute_spin that carries both
\* authorizations fails with DuplicateOperation when its spin_hash has a live
\* record, whether its spin_id was executed or not; with a spin_hash that has no
\* live record it fails with SpinAlreadyExecuted when its spin_id was executed,
\* and otherwise succeeds and records the execution of its spin_id; and every
\* execute_spin that fails, an unauthorized one included, leaves the recorded
\* spin executions as they were.
C32_SpinGuardsInOrder ==
    \A c \in ExecuteSpinCalls :
        LET r == execute_spin_with_ttl(BettingStorage, c[1], c[2], c[3], c[4], c[5], now)
        IN  /\ r.result # "Ok" => r.executions = spin_executions
            /\ SpinAuthorized(c) =>
                 IF HasLive(<<SPIN_SCOPE, c[3]>>)
                 THEN r.result = "DuplicateOperation"
                 ELSE IF IsSome(spin_executions[c[2]])
                 THEN r.result = "SpinAlreadyExecuted"
                 ELSE /\ r.result = "Ok"
                      /\ r.executions = [spin_executions EXCEPT
                                           ![c[2]] = Some(SpinExecution(c[2], c[4], now))]

\* C32 witness: spin1 was executed under h1, whose record is live, and an
\* execute_spin of spin1 under the fresh hash h2 has just failed with
\* SpinAlreadyExecuted; spin2 is not executed.
C32_Witness ==
    /\ last.op = "execute_spin"
    /\ last.result = "SpinAlreadyExecuted"
    /\ IsSome(spin_executions["spin1"])
    /\ spin_executions["spin2"] = None
    /\ HasLive(<<SPIN_SCOPE, "h1">>)
    /\ ops[<<SPIN_SCOPE, "h2">>] = None

(***************************************************************************)
(* Minting player cards (SpecMint)                                         *)
(***************************************************************************)
ADMIN == "admin"
\* Calls of mint: <<auths, operation_hash, to, ttl_seconds>>, by the admin and one
\* without the admin's authorization.
MintTtls == {None, Some(1)}
MintCalls ==
    ({{ADMIN}} \X Hashes \X Users \X MintTtls) \cup {<<{"alice"}, "h1", "alice", None>>}
\* Calls of transfer: <<auths, from, to, token_id>>, of the first two tokens, by
\* each user to each user, and one that lacks the authorization of `from`.
TransferCalls ==
    {<<{from}, from, to, token_id>> : from \in Users, to \in Users, token_id \in {1, 2}}
    \cup {<<{"bob"}, "alice", "bob", 1>>}

NextMint ==
    \/ Tick
    \/ PC_Initialize(ADMIN)
    \/ \E c \in MintCalls : Mint(c[1], c[2], c[3], c[4])
    \/ \E c \in TransferCalls : Transfer(c[1], c[2], c[3], c[4])
    \/ OwnerOf(1)
    \/ \E h \in Hashes : PC_CleanupMintOperation(h)
    \/ \E h \in Hashes : PC_IsMintOperationExecuted(h)

SpecMint == Init /\ [][NextMint]_vars

\* The tokens that have an owner.
Minted == {i \in TokenIds : IsSome(pc_owner[i])}

\* In the current state, a mint by the admin whose operation_hash has a live
\* record fails with DuplicateOperation and leaves the next token id, the total
\* supply and every owner as they were; one whose hash has no live record returns
\* the token id total_supply + 1, gives it to `to` and raises total_supply by one.
MintOnceThenNextId(c) ==
    LET r == mint(CardStorage, c[1], c[2], c[3], c[4], now)
    IN  IF HasLive(<<NFT_MINT_SCOPE, c[2]>>)
        THEN /\ r.result = "DuplicateOperation"
             /\ r.next = pc_next_token_id
             /\ total_supply(r.next) = total_supply(pc_next_token_id)
             /\ r.owner = pc_owner
        ELSE get_next_token_id(pc_next_token_id) \in TokenIds =>
             /\ r.result = "Ok"
             /\ r.token_id = Some(total_supply(pc_next_token_id) + 1)
             /\ total_supply(r.next) = total_supply(pc_next_token_id) + 1
             /\ r.owner = [pc_owner EXCEPT ![Unwrap(r.token_id)] = Some(c[3])]

\* The tokens minted so far are 1, 2, ..., total_supply.
MintedAreConsecutive ==
    IsSome(pc_next_token_id) =>
        /\ Minted = 1..total_supply(pc_next_token_id)
        /\ Cardinality(Minted) = total_supply(pc_next_token_id)

\* The total supply moves only in a successful mint, by one; a token gets its
\* first owner only in a successful mint; a successful transfer changes the owner
\* of its token only, and the supply not at all.
SupplyCountsMints ==
    /\ (IsSome(pc_next_token_id) /\ pc_next_token_id' # pc_next_token_id) =>
          /\ last'.op = "mint" /\ last'.result = "Ok"
          /\ last'.token_id = Some(total_supply(pc_next_token_id) + 1)
          /\ total_supply(pc_next_token_id') = total_supply(pc_next_token_id) + 1
    /\ (last'.op = "mint" /\ last'.result # "Ok") =>
          /\ pc_next_token_id' = pc_next_token_id
          /\ pc_owner' = pc_owner
    /\ Minted' # Minted => (last'.op = "mint" /\ last'.result = "Ok")
    /\ (last'.op = "transfer" /\ last'.result = "Ok") =>
          /\ pc_owner' = [pc_owner EXCEPT ![last'.token_id] = Some(last'.to)]
          /\ pc_next_token_id' = pc_next_token_id

\* C33: a mint by the admin whose operation_hash has a live record fails and mints
\* nothing: total supply, next token id and all ownership are unchanged; a mint
\* whose hash has no live record succeeds with the token id total_supply + 1, so
\* successful mints assign the ids 1, 2, 3, ... in order, the minted tokens are
\* exactly 1..total_supply, and total_supply changes only in a successful mint,
\* by one.
C33_MintOncePerHashConsecutiveIds ==
    /\ [](/\ MintedAreConsecutive
          /\ \A c \in MintCalls :
                (pc_admin # None /\ Unwrap(pc_admin) \in c[1]) => MintOnceThenNextId(c))
    /\ [][SupplyCountsMints]_vars

\* C33 witness: three mints have succeeded, giving tokens 1, 2 and 3, and a mint
\* whose hash has a live record has just been rejected.
C33_Witness ==
    /\ last.op = "mint"
    /\ last.result = "DuplicateOperation"
    /\ Minted = {1, 2, 3}
    /\ total_supply(pc_next_token_id) = 3

(***************************************************************************)
(* Lifecycle of an operation record (SpecIdem)                             *)
(***************************************************************************)
\* The step is a successful guard on key k.
GuardedOk(k) ==
    /\ last'.op = "ensure_not_replayed"
    /\ last'.result = "Ok"
    /\ KeyOf(last') = k

\* What a step may do to the record of key k: create it (a successful guard),
\* delete it (a cleanup that returns true), overwrite it (a successful guard on an
\* expired record), and nothing while it is live.
RecordLifecycle(k) ==
    /\ (ops[k] = None /\ ops'[k] # None) =>
          GuardedOk(k) /\ ops'[k] = Some(ExecutionRecord(now, last'.ttl))
    /\ (ops[k] # None /\ ops'[k] = None) =>
          /\ last'.op = "cleanup_operation"
          /\ last'.result = "true"
          /\ KeyOf(last') = k
    /\ (ops[k] # None /\ ops'[k] # None /\ ops'[k] # ops[k]) =>
          /\ GuardedOk(k)
          /\ HasExpired(k)
          /\ ops'[k] = Some(ExecutionRecord(now, last'.ttl))
    /\ HasLive(k) => ops'[k] = ops[k]

\* C34: an operation record is created only by a successful guard, deleted only
\* by a cleanup and overwritten only by a successful guard on an expired record; a
\* live record is changed by no step, and a guard rejected with
\* DuplicateOperation leaves the whole storage, so the record's executed_at and
\* ttl_seconds, as it was.
C34_RecordLifecycle ==
    [][/\ \A k \in IdemKeys : RecordLifecycle(k)
       /\ (last'.op = "ensure_not_replayed" /\ last'.result = "DuplicateOperation") =>
             /\ ops' = ops
             /\ HasLive(KeyOf(last'))
             /\ Unwrap(ops'[KeyOf(last')]).executed_at
                  = Unwrap(ops[KeyOf(last')]).executed_at]_vars

\* C34 witness: at time 1 a guard on settlement/h1 has just been rejected, and the
\* record still carries executed_at 0 and TTL 2, so it expires at time 2 as it
\* would have without the retry.
C34_Witness ==
    /\ last.op = "ensure_not_replayed"
    /\ last.result = "DuplicateOperation"
    /\ KeyOf(last) = <<SETTLEMENT_SCOPE, "h1">>
    /\ now = 1
    /\ ops[<<SETTLEMENT_SCOPE, "h1">>] = Some(ExecutionRecord(0, Some(2)))
    /\ is_expired(2, Unwrap(ops[<<SETTLEMENT_SCOPE, "h1">>]))

(***************************************************************************)
(* Operation records are keyed by (scope, operation_hash) (SpecIdem)       *)
(***************************************************************************)
\* The storage without the record of key k.
Without(k) == [ops EXCEPT ![k] = None]

\* The three entry points called on key k2 answer as they would if key k held no
\* record, write what they would write then, and leave the record of k alone.
Independent(k, k2) ==
    /\ \A ttl \in Ttls :
         LET r == ensure_not_replayed(ops, k2[1], k2[2], ttl, now)
             q == ensure_not_replayed(Without(k), k2[1], k2[2], ttl, now)
         IN  r.result = q.result /\ r.ops[k2] = q.ops[k2] /\ r.ops[k] = ops[k]
    /\ is_operation_executed(ops, k2[1], k2[2], now)
         = is_operation_executed(Without(k), k2[1], k2[2], now)
    /\ LET r == cleanup_operation(ops, k2[1], k2[2], now)
           q == cleanup_operation(Without(k), k2[1], k2[2], now)
       IN  r.result = q.result /\ r.ops[k2] = q.ops[k2] /\ r.ops[k] = ops[k]

\* C35: in every reachable state, a live record for (s1, h) does not affect guard,
\* is_operation_executed or cleanup_operation for any other key, (s2, h) with
\* s2 # s1 and (s1, h2) with h2 # h included: each answers, and writes, as it
\* would with no record for (s1, h), and none of them touches the record of
\* (s1, h); a key with no record beside a live one is not executed and its guard
\* succeeds.
C35_KeyedByScopeAndHash ==
    \A k \in IdemKeys :
        HasLive(k) =>
            \A k2 \in IdemKeys \ {k} :
                /\ Independent(k, k2)
                /\ ops[k2] = None =>
                     /\ ~is_operation_executed(ops, k2[1], k2[2], now)
                     /\ ensure_not_replayed(ops, k2[1], k2[2], None, now).result = "Ok"

\* C35 witness: with a live record for settlement/h1 written earlier, a guard on
\* spin_exec/h1 has just succeeded, and settlement/h2 has no record.
C35_Witness ==
    /\ last.op = "ensure_not_replayed"
    /\ last.result = "Ok"
    /\ KeyOf(last) = <<SPIN_SCOPE, "h1">>
    /\ ops[<<SETTLEMENT_SCOPE, "h1">>] = Some(ExecutionRecord(0, None))
    /\ ops[<<SPIN_SCOPE, "h1">>] = Some(ExecutionRecord(1, Some(2)))
    /\ ops[<<SETTLEMENT_SCOPE, "h2">>] = None

(***************************************************************************)
(* A guard on an expired record (SpecIdem)                                 *)
(***************************************************************************)
\* A guard with the given TTL on the expired record of key k, with no cleanup
\* before it: it succeeds and the record becomes (now, ttl); the old TTL is gone:
\* with no TTL the key is executed at every later clock value, with a TTL n it is
\* executed at exactly the clock values t with t - now < n.
ReguardReplaces(k, ttl) ==
    LET r == ensure_not_replayed(ops, k[1], k[2], ttl, now)
    IN  /\ r.result = "Ok"
        /\ r.ops[k] = Some(ExecutionRecord(now, ttl))
        /\ \A t \in now..MaxTime :
             is_operation_executed(r.ops, k[1], k[2], t)
               = (ttl = None \/ t - now < Unwrap(ttl))
        /\ ttl = None => \A t \in now..MaxTime :
                             ~cleanup_operation(r.ops, k[1], k[2], t).result

\* A guard step on an expired record returns Ok and stores (now, the call's TTL).
ReguardStep ==
    (last'.op = "ensure_not_replayed" /\ HasExpired(KeyOf(last'))) =>
        /\ last'.result = "Ok"
        /\ ops'[KeyOf(last')] = Some(ExecutionRecord(now, last'.ttl))

\* C36: a guard on an expired record that is still stored succeeds without a
\* cleanup and replaces the record with executed_at = now and the TTL of the new
\* call, whatever the old TTL was: re-guarding with no TTL makes the key
\* permanent, and re-guarding with a TTL starts a window counted from the new
\* executed_at.
C36_ReguardExpiredReplaces ==
    /\ [](\A k \in IdemKeys : HasExpired(k) => \A ttl \in Ttls : ReguardReplaces(k, ttl))
    /\ [][ReguardStep]_vars

\* C36 witness: at time 2 a guard with no TTL has just succeeded on spin_exec/h1
\* and stamped it 2, while settlement/h1 still holds its expired record of TTL 1
\* written at time 0, which no cleanup removed.
C36_Witness ==
    /\ last.op = "ensure_not_replayed"
    /\ last.result = "Ok"
    /\ last.ttl = None
    /\ KeyOf(last) = <<SPIN_SCOPE, "h1">>
    /\ now = 2
    /\ ops[<<SPIN_SCOPE, "h1">>] = Some(ExecutionRecord(2, None))
    /\ ops[<<SETTLEMENT_SCOPE, "h1">>] = Some(ExecutionRecord(0, Some(1)))
    /\ HasExpired(<<SETTLEMENT_SCOPE, "h1">>)

(***************************************************************************)
(* How is_operation_executed changes over time (SpecExpiry)                *)
(***************************************************************************)
\* The engine under every TTL, on one hash under two scopes.
ExpiryKeys == {<<SETTLEMENT_SCOPE, "h1">>, <<SPIN_SCOPE, "h1">>}

NextExpiry ==
    \/ Tick
    \/ \E k \in ExpiryKeys, ttl \in Ttls : Guard(k[1], k[2], ttl)
    \/ \E k \in ExpiryKeys : Cleanup(k[1], k[2])
    \/ \E k \in ExpiryKeys : IsExecuted(k[1], k[2])

SpecExpiry == Init /\ [][NextExpiry]_vars

\* is_operation_executed for key k before and after the step.
Executed(k) == is_operation_executed(ops, k[1], k[2], now)
ExecutedAfter(k) == is_operation_executed(ops', k[1], k[2], now')

\* The changes of is_operation_executed(k) in one step: up only in a successful
\* guard on k, so also for a key whose record is expired; down only in a clock
\* advance that takes the untouched record from inside its TTL window to outside
\* it.
ExecutedChanges(k) ==
    IF ExecutedAfter(k)
    THEN Executed(k) \/ GuardedOk(k)
    ELSE Executed(k) =>
          /\ last'.op = "tick"
          /\ now' > now
          /\ ops'[k] = ops[k]
          /\ IsSome(Unwrap(ops[k]).ttl_seconds)
          /\ now - Unwrap(ops[k]).executed_at < Unwrap(Unwrap(ops[k]).ttl_seconds)
          /\ now' - Unwrap(ops[k]).executed_at >= Unwrap(Unwrap(ops[k]).ttl_seconds)

\* The step is a cleanup, a query or a rejected guard.
NoGuardTaken ==
    \/ last'.op \in {"cleanup_operation", "is_operation_executed"}
    \/ last'.op = "ensure_not_replayed" /\ last'.result # "Ok"

\* C37: with the clock never going back, is_operation_executed(scope, h) goes
\* from false to true only in a successful guard(scope, h, _) and from true to
\* false only in a clock advance that takes now - executed_at from below the TTL
\* to at least the TTL; cleanup, is_operation_executed and rejected guards leave
\* its value for every key, and an expired record becomes live again only in a
\* successful guard on its key.
C37_ExecutedFlagTransitions ==
    [][/\ \A k \in ExpiryKeys : ExecutedChanges(k)
       /\ NoGuardTaken => \A k \in ExpiryKeys : ExecutedAfter(k) = Executed(k)]_vars

\* C37 witness: the clock has just advanced to 2, past the window of the record
\* of TTL 1 that settlement/h1 got at time 1, so the key is no longer executed,
\* while the record is still stored and spin_exec/h1 stays executed.
C37_Witness ==
    /\ last.op = "tick"
    /\ now = 2
    /\ ops[<<SETTLEMENT_SCOPE, "h1">>] = Some(ExecutionRecord(1, Some(1)))
    /\ ~is_operation_executed(ops, SETTLEMENT_SCOPE, "h1", now)
    /\ is_operation_executed(ops, SETTLEMENT_SCOPE, "h1", now - 1)
    /\ is_operation_executed(ops, SPIN_SCOPE, "h1", now)

(***************************************************************************)
(* A guard with TTL zero stores a record (SpecExpiry)                      *)
(***************************************************************************)
\* Right after a successful guard with TTL zero, at the same clock value, the
\* record (now, Some(0)) is stored; cleanup on its key returns true and deletes
\* it, and a second cleanup returns false.
ZeroTtlRecordIsStored ==
    JustGuardedZero(last) =>
        LET k == KeyOf(last)
            c1 == cleanup_operation(ops, k[1], k[2], now)
            c2 == cleanup_operation(c1.ops, k[1], k[2], now)
        IN  /\ ops[k] = Some(ExecutionRecord(now, Some(0)))
            /\ c1.result /\ c1.ops = [ops EXCEPT ![k] = None]
            /\ ~c2.result /\ c2.ops = c1.ops

\* A cleanup step on the key of the previous call: it returns true and deletes the
\* record right after a guard with TTL zero, and returns false and changes
\* nothing right after a cleanup that returned true.
ZeroTtlCleanupSteps ==
    (last'.op = "cleanup_operation" /\ last.op \in {"ensure_not_replayed", "cleanup_operation"}
     /\ last.result \in {"Ok", "true"} /\ KeyOf(last') = KeyOf(last)) =>
        /\ JustGuardedZero(last) =>
              /\ last'.result = "true"
              /\ ops' = [ops EXCEPT ![KeyOf(last)] = None]
        /\ (last.op = "cleanup_operation" /\ last.result = "true") =>
              /\ last'.result = "false"
              /\ ops' = ops

\* C38: a guard with TTL zero does store a record: in every state right after a
\* successful guard(scope, h, Some(0)), with no clock advance, the record
\* (now, Some(0)) is in storage, cleanup_operation(scope, h) returns true and
\* deletes it, and the cleanup after that returns false and changes nothing.
C38_ZeroTtlRecordCleanedOnce ==
    /\ []ZeroTtlRecordIsStored
    /\ [][ZeroTtlCleanupSteps]_vars

\* C38 witness: at time 0 a cleanup on settlement/h1 has just returned true: the
\* record it deleted was expired at the time it was written, so its TTL was zero.
C38_Witness ==
    /\ last.op = "cleanup_operation"
    /\ last.result = "true"
    /\ KeyOf(last) = <<SETTLEMENT_SCOPE, "h1">>
    /\ now = 0
    /\ ops[<<SETTLEMENT_SCOPE, "h1">>] = None

(***************************************************************************)
(* Re-initialization of the settlement contract (SpecInit)                 *)
(***************************************************************************)
\* Both initialize entry points with either identity, and settle calls by either
\* identity: fund-moving LOSS settlements of alice's stake and replay-guarded
\* settlements.  The ledger belongs to the backend.
InitSettleBetCalls == SignerAuths \X Bets \X {"alice"} \X {None} \X {1} \X {0} \X {LOSS}
InitSettleBetOpCalls == SignerAuths \X Hashes \X Bets \X {"bob"} \X {1} \X {None}

NextInit ==
    \/ \E signer \in Signers : ST_Initialize(signer)
    \/ \E signer \in Signers : ST_InitializeSigner(signer)
    \/ BL_Initialize(BACKEND)
    \/ SetBalance(BY_BACKEND, "alice", 0, I128_MAX)
    \/ \E c \in InitSettleBetCalls : SettleBet(c[1], c[2], c[3], c[4], c[5], c[6], c[7])
    \/ \E c \in InitSettleBetOpCalls : SettleBetOp(c[1], c[2], c[3], c[4], c[5], c[6])

SpecInit == Init /\ [][NextInit]_vars

\* An initialize step of the settlement contract returns Ok and stores the given
\* signer, whatever was stored before and whoever calls.
InitializeReplaces ==
    last'.op \in {"st_initialize", "st_initialize_signer"} =>
        /\ last'.result = "Ok"
        /\ st_backend' = Some(last'.signer)

\* With a signer stored, settle accepts the stored identity and no other: a call
\* without its authorization traps in require_auth and changes nothing; a
\* replay-guarded call with it gets to the replay guard, and a fund-moving call
\* with it is not refused as Unauthorized once a ledger is set.
SettleAcceptsStoredSignerOnly ==
    IsSome(st_backend) =>
        /\ \A c \in InitSettleBetOpCalls :
             LET r == settle_bet_op(Storage, c[1], c[2], c[3], c[4], c[5], c[6], now)
             IN  IF Unwrap(st_backend) \in c[1]
                 THEN r.result \in {"Ok", "DuplicateOperation"}
                 ELSE r.result = "HostError" /\ r.settled = settled /\ r.ops = ops
        /\ \A c \in InitSettleBetCalls :
             \A r \in SettleBetRuns(c) :
                 IF Unwrap(st_backend) \in c[1]
                 THEN IsSome(st_ledger) => r.result # "Unauthorized"
                 ELSE r.result = "HostError" /\ r.settled = settled
                      /\ r.store = bl_balance

\* C39: the settlement contract's initialize has no already-initialized check and
\* asks for no authorization: every initialize step, a second one included,
\* returns Ok and replaces the stored backend identity with the one given; in
\* every state settle accepts the authorization of the identity stored last and
\* refuses every other, the one stored before included.
C39_SettlementReinitializeReplaces ==
    /\ []SettleAcceptsStoredSignerOnly
    /\ [][InitializeReplaces]_vars

\* C39 witness: the backend settled a LOSS through the ledger while it was the
\* settlement signer; initialize was then called again with mallory, and a
\* replay-guarded settle carrying mallory's authorization has just succeeded.
C39_Witness ==
    /\ st_backend = Some(MALLORY)
    /\ last.op = "settle_bet_op"
    /\ last.result = "Ok"
    /\ Locked("alice") = I128_MAX - 1
    /\ settled = Bets

(***************************************************************************)
(* Settlements with negative amounts (SpecSigns)                           *)
(***************************************************************************)
\* LOSS and WIN settlements of alice's wagers with negative and positive stakes
\* and payouts, bob the winner, over balances the backend sets: alice's escrow
\* empty or full, bob's withdrawable balance empty, 1 or full.
SignStakes == {I128_MIN, -1, 1}
SignPayouts == {-1, 0, 1}
SignSettleBetCalls ==
    ({BY_BACKEND} \X Bets \X {"alice"} \X {None} \X SignStakes \X {0} \X {LOSS})
    \cup ({BY_BACKEND} \X Bets \X {"alice"} \X {Some("bob")} \X SignStakes \X SignPayouts
             \X {WIN})
SignSetBalanceCalls ==
    {<<BY_BACKEND, "alice", 0, 0>>, <<BY_BACKEND, "alice", 0, I128_MAX>>,
     <<BY_BACKEND, "bob", 0, 0>>, <<BY_BACKEND, "bob", 1, 0>>, <<BY_BACKEND, "bob", I128_MAX, 0>>}

NextSigns ==
    \/ BL_Initialize(BACKEND)
    \/ ST_Initialize(BACKEND)
    \/ \E c \in SignSetBalanceCalls : SetBalance(c[1], c[2], c[3], c[4])
    \/ \E c \in SignSettleBetCalls : SettleBet(c[1], c[2], c[3], c[4], c[5], c[6], c[7])

SpecSigns == Init /\ [][NextSigns]_vars

\* The call c is one both contracts let through to the fund moves: it carries
\* the authorization of the signer of the settlement contract and of the
\* ledger's, the ledger is configured, and the wager is not marked settled.
ReachesFundMoves(c) ==
    /\ IsSome(st_backend) /\ Unwrap(st_backend) \in c[1]
    /\ IsSome(bl_backend) /\ Unwrap(bl_backend) \in c[1]
    /\ IsSome(st_ledger)
    /\ c[2] \notin settled

\* The winner's withdrawable balance takes the payout: the sum is in 0..I128_MAX.
CreditFits(c) ==
    c[7] = WIN => Withdrawable(Unwrap(c[4])) + c[6] \in 0..I128_MAX

\* C40 as stated: a LOSS or WIN settlement with a negative staked_amount (and, for
\* WIN, a payout the winner's balance takes) succeeds and raises locked(bettor) by
\* the magnitude of the stake.
C40_NegativeStakeAlwaysSucceeds ==
    \A c \in SignSettleBetCalls :
        (ReachesFundMoves(c) /\ c[5] < 0 /\ CreditFits(c)) =>
            \A r \in SettleBetRuns(c) :
                /\ r.result = "Ok"
                /\ get_locked(r.store, c[3]) = Locked(c[3]) - c[5]

\* C40 amended: settle_bet does not look at the sign of bet_amount or payout.  A
\* LOSS or WIN settlement with a negative bet_amount succeeds, raising
\* locked(bettor) by its magnitude, exactly when locked(bettor) plus the magnitude
\* is at most the i128 maximum (and, for WIN, the winner's balance takes the
\* payout); otherwise it fails in every build and changes nothing.  For a WIN whose escrow move
\* succeeds, a negative payout is accepted exactly when withdrawable(winner) +
\* payout >= 0, and then lowers withdrawable(winner) by its magnitude.
C40_SignsUncheckedUpToLedgerRules ==
    \A c \in SignSettleBetCalls :
        ReachesFundMoves(c) =>
            \A r \in SettleBetRuns(c) :
            LET escrowFits == Locked(c[3]) - c[5] \in 0..I128_MAX
            IN  /\ c[5] < 0 =>
                     IF escrowFits /\ CreditFits(c)
                     THEN /\ r.result = "Ok"
                          /\ get_locked(r.store, c[3]) = Locked(c[3]) - c[5]
                          /\ get_locked(r.store, c[3]) > Locked(c[3])
                     ELSE /\ r.result # "Ok"
                          /\ r.store = bl_balance
                          /\ r.settled = settled
                /\ (c[7] = WIN /\ c[6] < 0 /\ escrowFits) =>
                     IF Withdrawable(Unwrap(c[4])) + c[6] >= 0
                     THEN /\ r.result = "Ok"
                          /\ get_withdrawable(r.store, Unwrap(c[4]))
                               = Withdrawable(Unwrap(c[4])) + c[6]
                     ELSE /\ r.result # "Ok"
                          /\ r.store = bl_balance

\* C40 witness: a LOSS settlement with bet_amount -1 has just succeeded and
\* alice's escrow, which the backend only ever sets to 0 or to the maximum,
\* stands at 1.
C40_Witness ==
    /\ last.op = "settle_bet" /\ last.result = "Ok"
    /\ last.settlement_type = LOSS
    /\ last.bet_amount = -1
    /\ Locked("alice") = 1

=============================================================================
